---- MODULE Spec2Model ----
(***************************************************************************)
(* AbletonOSC browser handler (src/abletonosc/browser.py): the catalog     *)
(* resolver (_find_item_by_name, _get_first_loadable_child), the search    *)
(* engine (_search, _search_in_category) and the load handlers, over a     *)
(* host-owned tree of browser items.                                       *)
(*                                                                         *)
(* A browser item is a record [id, name, is_loadable, children]: name is a *)
(* sequence of one-character strings, children the ordered sequence of     *)
(* child items, and id the object's identity (its path from the category   *)
(* root), which the code never reads but which tells two equal-looking     *)
(* items apart.                                                            *)
(***************************************************************************)
EXTENDS Integers, Sequences, FiniteSets

VARIABLES browser, hotswap_target, cmd, ret, calls

vars == <<browser, hotswap_target, cmd, ret, calls>>

(***************************************************************************)
(* Bounds of the model.                                                    *)
(***************************************************************************)
\* Largest number of items (the root included) of a generated tree.
MaxNodes == 4
\* Longest chain of nested folders below a category root.
MaxChain == 5
\* Largest number of children of a category root in the wide catalogs.
MaxWidth == 16
\* Largest number of items below a category root for the load-by-name handlers.
MaxLoadNodes == 2
\* Largest number of items below a category root for the load-default handlers.
MaxDefaultNodes == 3
\* Largest number of items below the four category roots hotswap_load searches,
\* taken together.
MaxHotswapNodes == 2
\* Largest number of items, the marker apart, below a category root for the
\* navigation handlers.
MaxBrowseNodes == 2
\* Largest number of items below the instruments root for load_instrument.
MaxInstrumentNodes == 2
\* Largest number of items below a category root when every handler runs.
MaxAllNodes == 1
\* Largest number of items below a category root for the handlers that invoke
\* a host operation.
MaxLoaderNodes == 2
\* Largest track or device index, either side of 0, given to hotswap_start.
MaxIndex == 3

(***************************************************************************)
(* Strings: str.lower() and the substring test `q in s`.                   *)
(***************************************************************************)
UpperCase == <<"A","B","C","D","E","F","G","H","I","J","K","L","M",
               "N","O","P","Q","R","S","T","U","V","W","X","Y","Z">>
LowerCase == <<"a","b","c","d","e","f","g","h","i","j","k","l","m",
               "n","o","p","q","r","s","t","u","v","w","x","y","z">>

\* The lower-case letter of each upper-case letter.
LowerMap ==
    [c \in { UpperCase[i] : i \in DOMAIN UpperCase } |->
        LowerCase[CHOOSE i \in DOMAIN UpperCase : UpperCase[i] = c]]

LowerChar(c) == IF c \in DOMAIN LowerMap THEN LowerMap[c] ELSE c

\* Mutant of lower: the identity (a case-sensitive comparison).
LowerIdentity(s) == s

\* s.lower()
lower(s) == IF s = <<>> THEN <<>> ELSE [i \in 1..Len(s) |-> LowerChar(s[i])]

\* q in s  (q occurs in s as a contiguous substring)
contains(q, s) ==
    \E i \in 0..(Len(s) - Len(q)) : SubSeq(s, i + 1, i + Len(q)) = q

(***************************************************************************)
(* Python's None, and the browser items.                                   *)
(***************************************************************************)
None == [id |-> <<>>, name |-> <<>>, is_loadable |-> FALSE, children |-> <<>>]

Kit == <<"K","i","t">>
Pad == <<"P","a","d">>
Tom == <<"T","o","m">>

\* The names and flags the generated items carry.
ItemNames == {Kit, Pad}
Labels == [name : ItemNames, is_loadable : BOOLEAN]

\* Every ordered forest of exactly n items labelled from L (items without id).
RECURSIVE Forests(_, _)
Forests(n, L) ==
    IF n = 0 THEN {<<>>}
    ELSE UNION { { <<[name |-> l.name, is_loadable |-> l.is_loadable,
                      children |-> kids]>> \o rest :
                     l \in L, kids \in Forests(k - 1, L),
                     rest \in Forests(n - k, L) } : k \in 1..n }

\* Every tree of exactly n items (n >= 1).
TreesOfSize(n, L) == { f[1] : f \in { g \in Forests(n, L) : Len(g) = 1 } }

TreesUpTo(n, L) == UNION { TreesOfSize(k, L) : k \in 1..n }

\* The tree t as host objects: each item gets its identity, the path from p.
RECURSIVE Place(_, _)
Place(t, p) ==
    [id |-> p, name |-> t.name, is_loadable |-> t.is_loadable,
     children |-> IF t.children = <<>> THEN <<>>
                  ELSE [i \in 1..Len(t.children) |->
                            Place(t.children[i], Append(p, i))]]

\* The keys of category_map, in its order.
Categories == <<"instruments", "drums", "sounds", "audio_effects",
                "midi_effects", "max_for_live", "plugins", "clips",
                "samples", "packs", "user_library", "current_project">>

CategorySet == { Categories[i] : i \in DOMAIN Categories }

\* A category root without content.
EmptyRoot(c) == [id |-> <<c>>, name |-> <<>>, is_loadable |-> FALSE, children |-> <<>>]

\* A browser whose every category root holds the tree t.
UniformBrowser(t) == [c \in CategorySet |-> Place(t, <<c>>)]

\* A browser whose category `cat` holds the tree t, the others being empty.
SingleBrowser(cat, t) ==
    [c \in CategorySet |-> IF c = cat THEN Place(t, <<c>>) ELSE EmptyRoot(c)]

\* item and all its descendants, and the descendants alone, in pre-order.
RECURSIVE PreorderFrom(_)
RECURSIVE PreorderKids(_, _)
PreorderKids(kids, i) ==
    IF i > Len(kids) THEN <<>>
    ELSE PreorderFrom(kids[i]) \o PreorderKids(kids, i + 1)
PreorderFrom(item) == <<item>> \o PreorderKids(item.children, 1)

Descendants(item) == PreorderKids(item.children, 1)

Range(s) == { s[i] : i \in DOMAIN s }

(***************************************************************************)
(* The resolver.                                                           *)
(***************************************************************************)
\* Mutant of _find_item_by_name: every direct child is compared before any
\* subtree is entered (a level-first search).
RECURSIVE FindShallowFirst(_, _)
FindShallowFirst(parent, name) ==
    LET kids == parent.children
        direct == { i \in DOMAIN kids : lower(kids[i].name) = lower(name) }
        deep == { i \in DOMAIN kids : FindShallowFirst(kids[i], name) # None }
        least(S) == CHOOSE i \in S : \A j \in S : i <= j
    IN IF direct # {} THEN kids[least(direct)]
       ELSE IF deep # {} THEN FindShallowFirst(kids[least(deep)], name)
       ELSE None

RECURSIVE _find_item_by_name(_, _)
RECURSIVE FindLoop(_, _, _)
\* The loop of _find_item_by_name from the i-th child on.
FindLoop(kids, i, name) ==
    IF i > Len(kids) THEN None
    ELSE LET item == kids[i] IN
         IF lower(item.name) = lower(name) THEN item
         ELSE LET found == IF Len(item.children) > 0
                           THEN _find_item_by_name(item, name)
                           ELSE None
              IN IF found # None THEN found
                 ELSE FindLoop(kids, i + 1, name)

_find_item_by_name(parent, name) == FindLoop(parent.children, 1, name)

\* Mutant of _get_first_loadable_child: every direct child is tested before
\* any subtree is entered.
RECURSIVE LoadableShallowFirst(_)
LoadableShallowFirst(item) ==
    LET kids == item.children
        direct == { i \in DOMAIN kids : kids[i].is_loadable }
        deep == { i \in DOMAIN kids : LoadableShallowFirst(kids[i]) # None }
        least(S) == CHOOSE i \in S : \A j \in S : i <= j
    IN IF item.is_loadable THEN item
       ELSE IF direct # {} THEN kids[least(direct)]
       ELSE IF deep # {} THEN LoadableShallowFirst(kids[least(deep)])
       ELSE None

RECURSIVE _get_first_loadable_child(_)
RECURSIVE LoadableLoop(_, _)

\* Mutant of _get_first_loadable_child: the item itself is never tested.
LoadableWithoutSelf(item) == LoadableLoop(item.children, 1)

\* The loop of _get_first_loadable_child from the i-th child on.
LoadableLoop(kids, i) ==
    IF i > Len(kids) THEN None
    ELSE LET child == kids[i] IN
         IF child.is_loadable THEN child
         ELSE LET found == _get_first_loadable_child(child)
              IN IF found # None THEN found
                 ELSE LoadableLoop(kids, i + 1)

_get_first_loadable_child(item) ==
    IF item.is_loadable THEN item ELSE LoadableLoop(item.children, 1)

(***************************************************************************)
(* Resolver specification: the two resolver functions applied to the root  *)
(* of every tree of at most MaxNodes items (a family closed under taking   *)
(* subtrees).                                                              *)
(***************************************************************************)
QueryNames == {Kit, <<"K","I","T">>, <<"p","a","d">>, Tom}

NoCmd == [op |-> "none"]

InitResolver ==
    /\ browser \in { SingleBrowser("instruments", t) :
                       t \in TreesUpTo(MaxNodes, Labels) }
    /\ hotswap_target = None
    /\ cmd = NoCmd
    /\ ret = None
    /\ calls = <<>>

FindItemByName ==
    \E name \in QueryNames :
      LET parent == browser["instruments"] IN
        /\ cmd' = [op |-> "find", parent |-> parent, name |-> name]
        /\ ret' = _find_item_by_name(parent, name)
        /\ UNCHANGED <<browser, hotswap_target, calls>>

GetFirstLoadableChild ==
      LET item == browser["instruments"] IN
        /\ cmd' = [op |-> "first_loadable", item |-> item]
        /\ ret' = _get_first_loadable_child(item)
        /\ UNCHANGED <<browser, hotswap_target, calls>>

NextResolver == FindItemByName \/ GetFirstLoadableChild

SpecResolver == InitResolver /\ [][NextResolver]_vars

(***************************************************************************)
(* Properties of the resolver.                                             *)
(***************************************************************************)
\* Case-insensitive equality of two names, letter by letter.
SameLetter(a, b) ==
    \/ a = b
    \/ \E i \in DOMAIN UpperCase :
          {a, b} = {UpperCase[i], LowerCase[i]}

EqualIgnoringCase(s, t) ==
    /\ Len(s) = Len(t)
    /\ \A i \in 1..Len(s) : SameLetter(s[i], t[i])

\* The descendants of parent named `name`, in pre-order.
NameMatches(parent, name) ==
    LET Test(x) == EqualIgnoringCase(x.name, name)
    IN SelectSeq(Descendants(parent), Test)

\* The loadable descendants of item, in pre-order.
LoadableDescendants(item) ==
    LET Test(x) == x.is_loadable
    IN SelectSeq(Descendants(item), Test)

FirstOrNone(s) == IF s = <<>> THEN None ELSE s[1]

\* Depth of an item below its category root (the root's children: 1).
Depth(item) == Len(item.id) - 1

\* p is a proper prefix of q.
ProperPrefix(p, q) == Len(p) < Len(q) /\ SubSeq(q, 1, Len(p)) = p

\* p and q (paths below the same category root, their first entry) part at
\* position k, where p takes the earlier sibling.
EarlierBranch(p, q) ==
    \E k \in 2..Len(p) :
        /\ k <= Len(q)
        /\ SubSeq(p, 1, k - 1) = SubSeq(q, 1, k - 1)
        /\ p[k] < q[k]

\* Same depth, and p not after q among the items of that depth.
NotLaterAtDepth(p, q) == Len(p) = Len(q) /\ (p = q \/ EarlierBranch(p, q))

\* C1: find_by_name(T, N) is the first item, in pre-order over T's
\* descendants (T excluded), whose name equals N ignoring case, or None
\* when no descendant matches.
C1_FindIsFirstPreorderMatch ==
    cmd.op = "find" =>
        ret = FirstOrNone(NameMatches(cmd.parent, cmd.name))

\* C1 witness: a find that passed over a non-matching item with a subtree,
\* returned a match below the first level, with a later match left behind.
C1_Witness ==
    /\ cmd.op = "find"
    /\ ret # None
    /\ Depth(ret) >= 2
    /\ Len(NameMatches(cmd.parent, cmd.name)) >= 2
    /\ cmd.name # ret.name

\* C2 as stated: among several matches the one returned has the least
\* depth and, among the matches of that depth, the earliest position.
C2_ShallowestMatchWins ==
    (cmd.op = "find" /\ Len(NameMatches(cmd.parent, cmd.name)) >= 2) =>
        \A m \in Range(NameMatches(cmd.parent, cmd.name)) :
            \/ Depth(ret) < Depth(m)
            \/ NotLaterAtDepth(ret.id, m.id)

\* C2 amended: among several matches the one returned is an ancestor of, or
\* lies under an earlier sibling than, every other match, whatever the
\* depths: a deeper match under an earlier sibling wins over a shallower
\* match at a later sibling.
C2_EarlierBranchWins ==
    (cmd.op = "find" /\ Len(NameMatches(cmd.parent, cmd.name)) >= 2) =>
        /\ ret \in Range(NameMatches(cmd.parent, cmd.name))
        /\ \A m \in Range(NameMatches(cmd.parent, cmd.name)) :
              m # ret => \/ ProperPrefix(ret.id, m.id)
                         \/ EarlierBranch(ret.id, m.id)

\* C2 witness: the returned match is deeper than another match.
C2_Witness ==
    /\ cmd.op = "find"
    /\ ret # None
    /\ \E m \in Range(NameMatches(cmd.parent, cmd.name)) :
          Depth(m) < Depth(ret)

\* The first loadable direct child of item, or None.
FirstLoadableDirectChild(item) ==
    LET Test(x) == x.is_loadable
    IN FirstOrNone(SelectSeq(item.children, Test))

\* C3 as stated: a non-loadable item with a loadable direct child yields
\* its first loadable direct child.
C3_DirectChildFirst ==
    (/\ cmd.op = "first_loadable"
     /\ ~cmd.item.is_loadable
     /\ FirstLoadableDirectChild(cmd.item) # None) =>
        ret = FirstLoadableDirectChild(cmd.item)

\* C3 amended: a non-loadable item yields its first loadable descendant in
\* pre-order; this is the first loadable direct child exactly when no
\* earlier child has a loadable descendant, the subtree of each
\* non-loadable child being searched before the next child is tested.
C3_FirstLoadableInPreorder ==
    (cmd.op = "first_loadable" /\ ~cmd.item.is_loadable) =>
        /\ ret = FirstOrNone(LoadableDescendants(cmd.item))
        /\ FirstLoadableDirectChild(cmd.item) # None =>
             LET kids == cmd.item.children
                 d == FirstLoadableDirectChild(cmd.item)
             IN (ret = d) <=>
                    \A i \in DOMAIN kids :
                        EarlierBranch(kids[i].id, d.id) =>
                            LoadableDescendants(kids[i]) = <<>>

\* C3 witness: a loadable direct child exists and a loadable item below an
\* earlier child is returned instead.
C3_Witness ==
    /\ cmd.op = "first_loadable"
    /\ ~cmd.item.is_loadable
    /\ FirstLoadableDirectChild(cmd.item) # None
    /\ ret # FirstLoadableDirectChild(cmd.item)
    /\ Depth(ret) = 2

\* C4: a loadable item yields itself whatever its children; a non-loadable
\* item without children yields None.
C4_BaseCases ==
    cmd.op = "first_loadable" =>
        /\ cmd.item.is_loadable => ret = cmd.item
        /\ (~cmd.item.is_loadable /\ cmd.item.children = <<>>) => ret = None

\* C4 witness: a loadable item with a loadable child yields itself.
C4_Witness ==
    /\ cmd.op = "first_loadable"
    /\ cmd.item.is_loadable
    /\ FirstLoadableDirectChild(cmd.item) # None
    /\ ret = cmd.item

\* C4 witness of the second case: a non-loadable leaf yields None.
C4_WitnessLeaf ==
    /\ cmd.op = "first_loadable"
    /\ ~cmd.item.is_loadable
    /\ cmd.item.children = <<>>
    /\ ret = None


(***************************************************************************)
(* The search engine.                                                      *)
(***************************************************************************)
\* "results.extend(matches[:10])  # Limit per category"
PerCategoryLimit == 10
\* "for cat, name in results[:50]:  # Total limit"
TotalLimit == 50
\* "if depth > 3:  # Limit recursion depth"
RecursionLimit == 3

\* Mutant of SearchCategories: the blanket search also covers packs.
SearchCategoriesWithPacks ==
    <<"instruments", "drums", "sounds", "audio_effects", "midi_effects",
      "plugins", "clips", "samples", "packs">>

\* The (name, root) pairs of _search's categories list, in its order.
SearchCategories == <<"instruments", "drums", "sounds", "audio_effects",
                      "midi_effects", "plugins", "clips", "samples">>

\* s[:n]
Take(s, n) == SubSeq(s, 1, IF n < Len(s) THEN n ELSE Len(s))

\* What a handler hands back: a tuple, or nothing (Python's implicit None).
ReturnTuple(t) == [returned |-> "tuple", value |-> t]
ReturnVoid == [returned |-> "void", value |-> <<>>]

RECURSIVE _search_in_category(_, _, _, _)
RECURSIVE SearchLoop(_, _, _, _, _)
\* The loop of _search_in_category from the i-th child on.
SearchLoop(kids, i, query, category, depth) ==
    IF i > Len(kids) THEN <<>>
    ELSE LET item == kids[i]
             hit == IF contains(query, lower(item.name))
                    THEN << <<category, item.name>> >>
                    ELSE <<>>
             below == IF Len(item.children) > 0
                      THEN _search_in_category(item, query, category, depth + 1)
                      ELSE <<>>
         IN hit \o below \o SearchLoop(kids, i + 1, query, category, depth)

\* Mutant of _search_in_category: the depth test is missing.
SearchWithoutDepthLimit(parent, query, category, depth) ==
    SearchLoop(parent.children, 1, query, category, depth)

_search_in_category(parent, query, category, depth) ==
    IF depth > RecursionLimit THEN <<>>
    ELSE SearchLoop(parent.children, 1, query, category, depth)

\* The items whose name _search_in_category reads (its loop variable).
RECURSIVE SearchVisited(_, _)
SearchVisited(parent, depth) ==
    IF depth > RecursionLimit THEN {}
    ELSE Range(parent.children) \cup
         UNION { IF Len(parent.children[i].children) > 0
                 THEN SearchVisited(parent.children[i], depth + 1)
                 ELSE {} : i \in DOMAIN parent.children }

\* Mutant of SearchResults: the per-category limit is missing.
RECURSIVE SearchResultsUncapped(_, _, _)
SearchResultsUncapped(b, k, query) ==
    IF k > Len(SearchCategories) THEN <<>>
    ELSE LET cat_name == SearchCategories[k]
         IN _search_in_category(b[cat_name], query, cat_name, 0)
               \o SearchResultsUncapped(b, k + 1, query)

\* The results list of _search after the categories from the k-th on.
RECURSIVE SearchResults(_, _, _)
SearchResults(b, k, query) ==
    IF k > Len(SearchCategories) THEN <<>>
    ELSE LET cat_name == SearchCategories[k]
             matches == _search_in_category(b[cat_name], query, cat_name, 0)
         IN Take(matches, PerCategoryLimit) \o SearchResults(b, k + 1, query)

\* flat_results: the pairs laid end to end.
RECURSIVE Flatten(_)
Flatten(pairs) ==
    IF pairs = <<>> THEN <<>> ELSE pairs[1] \o Flatten(Tail(pairs))

_search(b, params) ==
    IF Len(params) < 1 THEN ReturnTuple(<<>>)
    ELSE LET query == lower(params[1])
             results == SearchResults(b, 1, query)
         IN ReturnTuple(Flatten(Take(results, TotalLimit)))

(***************************************************************************)
(* Search specification: _search over three families of catalogs: every    *)
(* tree of at most MaxNodes items in every category, a chain of nested     *)
(* folders of up to MaxChain levels in one category, and category roots    *)
(* with up to MaxWidth children.                                           *)
(***************************************************************************)
Bass == <<"B","a","s","s">>

Digit == <<"0","1","2","3","4","5","6","7","8","9">>
\* The two decimal digits of i.
Numeral(i) == <<Digit[(i \div 10) + 1], Digit[(i % 10) + 1]>>

\* A chain of folders below depth k: names[k] names the folder at depth k.
RECURSIVE Chain(_, _)
Chain(names, k) ==
    IF k > Len(names) THEN <<>>
    ELSE << [name |-> names[k] \o Numeral(k), is_loadable |-> (k = Len(names)),
             children |-> Chain(names, k + 1)] >>

ChainNames == UNION { [1..d -> {Bass, Tom}] : d \in 1..MaxChain }

ChainBrowsers ==
    { SingleBrowser(c, [name |-> <<>>, is_loadable |-> FALSE,
                        children |-> Chain(names, 1)]) :
         c \in CategorySet, names \in ChainNames }

\* A root with w leaves: every third one a Tom, the others a Bass.
WideRoot(w) ==
    [name |-> <<>>, is_loadable |-> FALSE,
     children |-> IF w = 0 THEN <<>>
                  ELSE [i \in 1..w |->
                         [name |-> (IF i % 3 = 0 THEN Tom ELSE Bass) \o Numeral(i),
                          is_loadable |-> TRUE, children |-> <<>>]]]

Widths == {0, 1, PerCategoryLimit - 1, PerCategoryLimit, PerCategoryLimit + 1,
           MaxWidth}

\* The categories before the s-th have w children each, the others v.
WideBrowsers ==
    { [c \in CategorySet |->
          LET k == CHOOSE i \in DOMAIN Categories : Categories[i] = c
          IN Place(WideRoot(IF k < s THEN w ELSE v), <<c>>)] :
        w \in Widths, v \in Widths, s \in DOMAIN Categories }

\* The search reads names only: the generated items are all folders.
SearchLabels == [name : ItemNames, is_loadable : {FALSE}]

SearchParams == {<<>>, << <<>> >>, << <<"B","A","S","S">> >>, << <<"o","m">> >>,
                 << <<"i">> >>, << <<"s","0","4">> >>}

InitSearch ==
    /\ browser \in { UniformBrowser(t) : t \in TreesUpTo(MaxNodes, SearchLabels) }
                   \cup ChainBrowsers \cup WideBrowsers
    /\ hotswap_target = None
    /\ cmd = NoCmd
    /\ ret = None
    /\ calls = <<>>

Search ==
    \E params \in SearchParams :
        /\ cmd' = [op |-> "search", params |-> params]
        /\ ret' = _search(browser, params)
        /\ UNCHANGED <<browser, hotswap_target, calls>>

NextSearch == Search

SpecSearch == InitSearch /\ [][NextSearch]_vars


(***************************************************************************)
(* Properties of the search engine.                                        *)
(***************************************************************************)
\* q occurs in s ignoring case, letter by letter.
ContainsIgnoringCase(q, s) ==
    \E i \in 0..(Len(s) - Len(q)) :
        \A j \in 1..Len(q) : SameLetter(q[j], s[i + j])

\* The descendants of the root of category c down to depth d, in pre-order.
WithinDepth(c, d) ==
    LET Test(x) == Depth(x) <= d
    IN SelectSeq(Descendants(browser[c]), Test)

\* The (category, name) pairs of the items of category c, down to depth d,
\* whose name contains q ignoring case, in pre-order.
RECURSIVE PairsOfItems(_, _)
PairsOfItems(c, items) ==
    IF items = <<>> THEN <<>>
    ELSE << <<c, items[1].name>> >> \o PairsOfItems(c, Tail(items))

QueryMatches(c, q, d) ==
    LET Test(x) == ContainsIgnoringCase(q, x.name)
    IN PairsOfItems(c, SelectSeq(WithinDepth(c, d), Test))

\* The result tuple read back as pairs.
Pairs(flat) ==
    IF flat = <<>> THEN <<>>
    ELSE [k \in 1..(Len(flat) \div 2) |-> <<flat[2 * k - 1], flat[2 * k]>>]

\* A search that was given its query.
Searched == cmd.op = "search" /\ Len(cmd.params) >= 1

\* The deepest level _search reaches: the root's children are read at
\* recursion depth 0, their children at depth 1, and so on to RecursionLimit.
DeepestSearched == RecursionLimit + 1

\* C5 as stated: no item deeper than max_depth = 3 is visited, and every
\* reported name is the name of an item at depth at most 3.
C5_NothingBelowMaxDepth ==
    Searched =>
        /\ \A k \in DOMAIN SearchCategories :
              \A x \in SearchVisited(browser[SearchCategories[k]], 0) :
                  Depth(x) <= RecursionLimit
        /\ \A pr \in Range(Pairs(ret.value)) :
              \E x \in Range(WithinDepth(pr[1], RecursionLimit)) :
                  x.name = pr[2]

\* C5 amended: the cutoff lies one level lower. No item deeper than
\* max_depth + 1 = 4 is visited, every reported name is the name of a
\* matching item at depth at most 4, and items at depth 4 are visited and,
\* when no limit cuts the result, reported.
C5_NothingBelowDeepestSearched ==
    Searched =>
        /\ \A k \in DOMAIN SearchCategories :
              LET c == SearchCategories[k]
                  seen == SearchVisited(browser[c], 0)
              IN /\ \A x \in seen : Depth(x) <= DeepestSearched
                 /\ Range(WithinDepth(c, DeepestSearched)) \subseteq seen
                 /\ Len(ret.value) < 2 * PerCategoryLimit =>
                       Range(QueryMatches(c, cmd.params[1], DeepestSearched))
                           \subseteq Range(Pairs(ret.value))
        /\ \A pr \in Range(Pairs(ret.value)) :
              pr \in Range(QueryMatches(pr[1], cmd.params[1], DeepestSearched))

\* C5 witness: a searched category holds matching items at depth 4 and at
\* depth 5; the one at depth 4 is reported and the one at depth 5 is not.
C5_Witness ==
    /\ Searched
    /\ \E k \in DOMAIN SearchCategories :
          LET c == SearchCategories[k]
              items == Range(Descendants(browser[c]))
          IN /\ \E x \in items :
                   /\ Depth(x) = DeepestSearched
                   /\ ContainsIgnoringCase(cmd.params[1], x.name)
                   /\ <<c, x.name>> \in Range(Pairs(ret.value))
             /\ \E x \in items :
                   /\ Depth(x) = DeepestSearched + 1
                   /\ ContainsIgnoringCase(cmd.params[1], x.name)
                   /\ <<c, x.name>> \notin Range(Pairs(ret.value))

\* The contributions of the categories from the k-th on, each cut to the
\* per-category limit.
RECURSIVE Contributions(_, _)
Contributions(k, q) ==
    IF k > Len(SearchCategories) THEN <<>>
    ELSE Take(QueryMatches(SearchCategories[k], q, DeepestSearched),
              PerCategoryLimit) \o Contributions(k + 1, q)

\* C6: each category contributes its first min(10, matches) matches in
\* pre-order, the contributions are joined in the fixed category order and
\* the whole is cut to its first 50 pairs; with at least 10 matches in each
\* of the 8 categories the result has exactly 50 pairs, all of the first 5
\* categories.
C6_SearchCaps ==
    Searched =>
        /\ Pairs(ret.value) = Take(Contributions(1, cmd.params[1]), TotalLimit)
        /\ Len(ret.value) = 2 * Len(Pairs(ret.value))
        /\ (\A k \in DOMAIN SearchCategories :
               Len(QueryMatches(SearchCategories[k], cmd.params[1],
                                DeepestSearched)) >= PerCategoryLimit) =>
             /\ Len(Pairs(ret.value)) = TotalLimit
             /\ \A pr \in Range(Pairs(ret.value)) :
                   pr[1] \in {"instruments", "drums", "sounds", "audio_effects",
                              "midi_effects"}

\* C6 witness: every searched category has at least 10 matches, one of the
\* first five has more, and 50 pairs come back.
C6_Witness ==
    /\ Searched
    /\ \A k \in DOMAIN SearchCategories :
          Len(QueryMatches(SearchCategories[k], cmd.params[1],
                           DeepestSearched)) >= PerCategoryLimit
    /\ Len(QueryMatches("drums", cmd.params[1], DeepestSearched))
          > PerCategoryLimit
    /\ Len(Pairs(ret.value)) = TotalLimit

\* No limit cuts the result of the search for q.
NoCapHit(q) ==
    /\ \A k \in DOMAIN SearchCategories :
          Len(QueryMatches(SearchCategories[k], q, DeepestSearched))
              <= PerCategoryLimit
    /\ Len(Contributions(1, q)) <= TotalLimit

Outcome(r, c) == [ret |-> r, calls |-> c]

\* browser.load_item(item); return (item.name,)  -- inside try/except
LoadItemAndReturn(item, host_raises) ==
    Outcome(IF host_raises THEN ReturnVoid ELSE ReturnTuple(<<item.name>>),
            << [op |-> "load_item", item |-> item] >>)

\* Mutant of LoadByName: the item found is loaded itself, without looking
\* for a loadable item in it.
LoadFoundItem(root, params, host_raises) ==
    IF Len(params) < 1 THEN Outcome(ReturnVoid, <<>>)
    ELSE LET item == _find_item_by_name(root, params[1])
         IN IF item # None THEN LoadItemAndReturn(item, host_raises)
            ELSE Outcome(ReturnVoid, <<>>)

\* The body shared by _load_audio_effect, _load_midi_effect, _load_sound,
\* _load_sample, _load_clip, _load_plugin and _load_max_device, which differ
\* in the category root alone.
LoadByName(root, params, host_raises) ==
    IF Len(params) < 1 THEN Outcome(ReturnVoid, <<>>)
    ELSE LET name == params[1]
             item == _find_item_by_name(root, name)
         IN IF item # None
            THEN LET loadable == _get_first_loadable_child(item)
                 IN IF loadable # None
                    THEN LoadItemAndReturn(loadable, host_raises)
                    ELSE Outcome(ReturnVoid, <<>>)
            ELSE Outcome(ReturnVoid, <<>>)

_load_audio_effect(b, params, host_raises) ==
    LoadByName(b["audio_effects"], params, host_raises)
_load_midi_effect(b, params, host_raises) ==
    LoadByName(b["midi_effects"], params, host_raises)
_load_sound(b, params, host_raises) ==
    LoadByName(b["sounds"], params, host_raises)
_load_sample(b, params, host_raises) ==
    LoadByName(b["samples"], params, host_raises)
_load_clip(b, params, host_raises) ==
    LoadByName(b["clips"], params, host_raises)
_load_plugin(b, params, host_raises) ==
    LoadByName(b["plugins"], params, host_raises)
_load_max_device(b, params, host_raises) ==
    LoadByName(b["max_for_live"], params, host_raises)

(***************************************************************************)
(* Load specification: the seven load-by-name handlers over every forest   *)
(* of at most MaxLoadNodes items below each category root.                 *)
(***************************************************************************)
LoadParams == {<<>>, << <<"K","I","T">> >>, << <<"p","a","d">> >>}

\* A category root (never loadable, unnamed) above the forest f.
RootOver(f) == [name |-> <<>>, is_loadable |-> FALSE, children |-> f]

ForestsUpTo(n, L) == UNION { Forests(k, L) : k \in 0..n }

InitLoad ==
    /\ browser \in { UniformBrowser(RootOver(f)) :
                        f \in ForestsUpTo(MaxLoadNodes, Labels) }
    /\ hotswap_target = None
    /\ cmd = NoCmd
    /\ ret = None
    /\ calls = <<>>

\* A handler ran on params and left the outcome out.
Handled(op, params, host_raises, out) ==
    /\ cmd' = [op |-> op, params |-> params, host_raises |-> host_raises]
    /\ ret' = out.ret
    /\ calls' = out.calls
    /\ UNCHANGED <<browser, hotswap_target>>

LoadAudioEffect ==
    \E params \in LoadParams, host_raises \in BOOLEAN :
        Handled("load_audio_effect", params, host_raises,
                _load_audio_effect(browser, params, host_raises))
LoadMidiEffect ==
    \E params \in LoadParams, host_raises \in BOOLEAN :
        Handled("load_midi_effect", params, host_raises,
                _load_midi_effect(browser, params, host_raises))
LoadSound ==
    \E params \in LoadParams, host_raises \in BOOLEAN :
        Handled("load_sound", params, host_raises,
                _load_sound(browser, params, host_raises))
LoadSample ==
    \E params \in LoadParams, host_raises \in BOOLEAN :
        Handled("load_sample", params, host_raises,
                _load_sample(browser, params, host_raises))
LoadClip ==
    \E params \in LoadParams, host_raises \in BOOLEAN :
        Handled("load_clip", params, host_raises,
                _load_clip(browser, params, host_raises))
LoadPlugin ==
    \E params \in LoadParams, host_raises \in BOOLEAN :
        Handled("load_plugin", params, host_raises,
                _load_plugin(browser, params, host_raises))
LoadMaxDevice ==
    \E params \in LoadParams, host_raises \in BOOLEAN :
        Handled("load_max_device", params, host_raises,
                _load_max_device(browser, params, host_raises))

NextLoad ==
    \/ LoadAudioEffect
    \/ LoadMidiEffect
    \/ LoadSound
    \/ LoadSample
    \/ LoadClip
    \/ LoadPlugin
    \/ LoadMaxDevice

SpecLoad == InitLoad /\ [][NextLoad]_vars

(***************************************************************************)
(* Properties of the load-by-name handlers.                                *)
(***************************************************************************)
\* The category each load-by-name command resolves in.
LoadRoot ==
    [load_audio_effect |-> "audio_effects", load_midi_effect |-> "midi_effects",
     load_sound |-> "sounds", load_sample |-> "samples", load_clip |-> "clips",
     load_plugin |-> "plugins", load_max_device |-> "max_for_live"]

\* find_by_name and first_loadable_descendant, read off the pre-order lists.
FirstNamed(root, name) == FirstOrNone(NameMatches(root, name))
FirstLoadable(item) ==
    IF item = None THEN None
    ELSE IF item.is_loadable THEN item
    ELSE FirstOrNone(LoadableDescendants(item))

\* The host loads invoked by the last command.
Loads == SelectSeq(calls, LAMBDA c : c.op = "load_item")

\* C8: a load-by-name command given a name invokes the host load exactly
\* once, on first_loadable_descendant(find_by_name(root, name)), and returns
\* that item's name (the host load completing normally); when the name is
\* not found or the item found holds nothing loadable, it invokes no host
\* operation and returns nothing.
C8_LoadByName ==
    (cmd.op \in DOMAIN LoadRoot /\ Len(cmd.params) >= 1) =>
        LET target == FirstLoadable(FirstNamed(browser[LoadRoot[cmd.op]],
                                               cmd.params[1]))
        IN IF target # None
           THEN /\ calls = << [op |-> "load_item", item |-> target] >>
                /\ ~cmd.host_raises => ret = ReturnTuple(<<target.name>>)
           ELSE /\ calls = <<>>
                /\ ret = ReturnVoid

\* C8 witness: the name given is that of a folder that is not loadable, and
\* the loadable item in it is loaded and its name returned.
C8_Witness ==
    /\ cmd.op = "load_sound"
    /\ Len(cmd.params) >= 1
    /\ Len(Loads) = 1
    /\ ~EqualIgnoringCase(Loads[1].item.name, cmd.params[1])
    /\ Loads[1].item.id[1] = "sounds"
    /\ ret = ReturnTuple(<<Loads[1].item.name>>)

\* C8 witness of the failing case: the name is found, nothing below it is
\* loadable although the category holds a loadable item, nothing is loaded.
C8_WitnessNotLoadable ==
    /\ cmd.op = "load_plugin"
    /\ Len(cmd.params) >= 1
    /\ FirstNamed(browser["plugins"], cmd.params[1]) # None
    /\ FirstLoadable(browser["plugins"]) # None
    /\ calls = <<>>
    /\ ret = ReturnVoid


(***************************************************************************)
(* The load-default handlers.                                              *)
(***************************************************************************)
\* The preferred names of _load_default_instrument, in its order.
InstrumentPreferences ==
    <<<<"D","r","i","f","t">>,
      <<"A","n","a","l","o","g">>,
      <<"W","a","v","e","t","a","b","l","e">>,
      <<"O","p","e","r","a","t","o","r">>,
      <<"T","e","n","s","i","o","n">>,
      <<"C","o","l","l","i","s","i","o","n">>>>
\* The preferred names of _load_default_audio_effect.
AudioEffectPreferences ==
    <<<<"R","e","v","e","r","b">>,
      <<"D","e","l","a","y">>,
      <<"E","Q"," ","E","i","g","h","t">>,
      <<"C","o","m","p","r","e","s","s","o","r">>,
      <<"U","t","i","l","i","t","y">>>>
\* The preferred names of _load_default_midi_effect.
MidiEffectPreferences ==
    <<<<"A","r","p","e","g","g","i","a","t","o","r">>,
      <<"C","h","o","r","d">>,
      <<"S","c","a","l","e">>,
      <<"N","o","t","e"," ","L","e","n","g","t","h">>,
      <<"P","i","t","c","h">>>>

\* "Fallback: try to load any ..."
LoadAnything(root, host_raises) ==
    LET loadable == _get_first_loadable_child(root)
    IN IF loadable # None THEN LoadItemAndReturn(loadable, host_raises)
       ELSE Outcome(ReturnVoid, <<>>)

\* Mutant of PreferenceLoop: the first preferred name that is found ends the
\* loop, loadable or not.
RECURSIVE FirstFoundOnly(_, _, _, _)
FirstFoundOnly(root, names, i, host_raises) ==
    IF i > Len(names) THEN LoadAnything(root, host_raises)
    ELSE LET item == _find_item_by_name(root, names[i])
         IN IF item # None
            THEN LET loadable == _get_first_loadable_child(item)
                 IN IF loadable # None
                    THEN LoadItemAndReturn(loadable, host_raises)
                    ELSE LoadAnything(root, host_raises)
            ELSE FirstFoundOnly(root, names, i + 1, host_raises)

\* Mutant of PreferenceLoop: there is no fallback after the preferred names.
RECURSIVE PreferencesOnly(_, _, _, _)
PreferencesOnly(root, names, i, host_raises) ==
    IF i > Len(names) THEN Outcome(ReturnVoid, <<>>)
    ELSE LET item == _find_item_by_name(root, names[i])
             loadable == IF item # None THEN _get_first_loadable_child(item)
                         ELSE None
         IN IF loadable # None THEN LoadItemAndReturn(loadable, host_raises)
            ELSE PreferencesOnly(root, names, i + 1, host_raises)

\* The loop over the preferred names from the i-th on, then the fallback: the
\* body shared by the three load-default handlers.
RECURSIVE PreferenceLoop(_, _, _, _)
PreferenceLoop(root, names, i, host_raises) ==
    IF i > Len(names) THEN LoadAnything(root, host_raises)
    ELSE LET item == _find_item_by_name(root, names[i])
         IN IF item # None
            THEN LET loadable == _get_first_loadable_child(item)
                 IN IF loadable # None
                    THEN LoadItemAndReturn(loadable, host_raises)
                    ELSE PreferenceLoop(root, names, i + 1, host_raises)
            ELSE PreferenceLoop(root, names, i + 1, host_raises)

_load_default_instrument(b, params, host_raises) ==
    PreferenceLoop(b["instruments"], InstrumentPreferences, 1, host_raises)
_load_default_audio_effect(b, params, host_raises) ==
    PreferenceLoop(b["audio_effects"], AudioEffectPreferences, 1, host_raises)
_load_default_midi_effect(b, params, host_raises) ==
    PreferenceLoop(b["midi_effects"], MidiEffectPreferences, 1, host_raises)

(***************************************************************************)
(* Load-default specification: the three handlers over every forest of at  *)
(* most MaxDefaultNodes items whose names are, per category, a late        *)
(* preferred name, an earlier preferred name in another case, and a name   *)
(* that is not preferred.                                                  *)
(***************************************************************************)
DefaultNames ==
    [instruments   |-> <<<<"w","a","v","e","t","a","b","l","e">>, <<"A","n","a","l","o","g">>, <<"S","i","m","p","l","e","r">>>>,
     audio_effects |-> <<<<"d","e","l","a","y">>, <<"R","e","v","e","r","b">>, <<"A","m","p">>>>,
     midi_effects  |-> <<<<"p","i","t","c","h">>, <<"C","h","o","r","d">>, <<"V","e","l","o","c","i","t","y">>>>]

DefaultLabels == [name : 1..3, is_loadable : BOOLEAN]

\* The tree t with each name index replaced by the name the table gives it.
RECURSIVE Named(_, _)
Named(t, table) ==
    [name |-> IF t.name \in DOMAIN table THEN table[t.name] ELSE <<>>,
     is_loadable |-> t.is_loadable,
     children |-> IF t.children = <<>> THEN <<>>
                  ELSE [i \in 1..Len(t.children) |-> Named(t.children[i], table)]]

\* The browser whose instruments, audio_effects and midi_effects roots,
\* loadable or not as l says, hold the forest f under their own names.
DefaultBrowser(l, f) ==
    [c \in CategorySet |->
        IF c \in DOMAIN DefaultNames
        THEN Place(Named([name |-> 0, is_loadable |-> l, children |-> f],
                         DefaultNames[c]), <<c>>)
        ELSE EmptyRoot(c)]

\* Roots that are folders over every forest, and loadable roots over the
\* forests of one item less.
DefaultBrowsers ==
    { DefaultBrowser(FALSE, f) : f \in ForestsUpTo(MaxDefaultNodes, DefaultLabels) }
    \cup
    { DefaultBrowser(TRUE, f) : f \in ForestsUpTo(MaxDefaultNodes - 1, DefaultLabels) }

InitDefault ==
    /\ browser \in DefaultBrowsers
    /\ hotswap_target = None
    /\ cmd = NoCmd
    /\ ret = None
    /\ calls = <<>>

LoadDefaultInstrument ==
    \E host_raises \in BOOLEAN :
        Handled("load_default_instrument", <<>>, host_raises,
                _load_default_instrument(browser, <<>>, host_raises))
LoadDefaultAudioEffect ==
    \E host_raises \in BOOLEAN :
        Handled("load_default_audio_effect", <<>>, host_raises,
                _load_default_audio_effect(browser, <<>>, host_raises))
LoadDefaultMidiEffect ==
    \E host_raises \in BOOLEAN :
        Handled("load_default_midi_effect", <<>>, host_raises,
                _load_default_midi_effect(browser, <<>>, host_raises))

NextDefault ==
    \/ LoadDefaultInstrument
    \/ LoadDefaultAudioEffect
    \/ LoadDefaultMidiEffect

SpecDefault == InitDefault /\ [][NextDefault]_vars


(***************************************************************************)
(* Properties of the load-default handlers.                                *)
(***************************************************************************)
\* The category and the preferred names of each load-default command.
DefaultRoot ==
    [load_default_instrument |-> "instruments",
     load_default_audio_effect |-> "audio_effects",
     load_default_midi_effect |-> "midi_effects"]
DefaultPreferences ==
    [load_default_instrument |-> InstrumentPreferences,
     load_default_audio_effect |-> AudioEffectPreferences,
     load_default_midi_effect |-> MidiEffectPreferences]

\* What the i-th preferred name of command op resolves to, or None.
Resolved(op, i) ==
    FirstLoadable(FirstNamed(browser[DefaultRoot[op]], DefaultPreferences[op][i]))

\* The places in op's list of the preferred names that resolve.
Resolving(op) ==
    { i \in DOMAIN DefaultPreferences[op] : Resolved(op, i) # None }

\* C9: load_default loads what the first preferred name, in list order,
\* that is found and holds a loadable item resolves to, and nothing else;
\* only when no preferred name resolves does it load
\* first_loadable_descendant(root), if there is one. (The name is returned
\* when the host load completes normally.)
C9_PreferredInOrder ==
    cmd.op \in DOMAIN DefaultRoot =>
        LET first == CHOOSE i \in Resolving(cmd.op) :
                         \A j \in Resolving(cmd.op) : i <= j
            target == IF Resolving(cmd.op) # {}
                      THEN Resolved(cmd.op, first)
                      ELSE FirstLoadable(browser[DefaultRoot[cmd.op]])
        IN IF target # None
           THEN /\ calls = << [op |-> "load_item", item |-> target] >>
                /\ ~cmd.host_raises => ret = ReturnTuple(<<target.name>>)
           ELSE /\ calls = <<>>
                /\ ret = ReturnVoid

\* C9 witness: instruments holds [Simpler, wavetable], Simpler a folder with
\* a loadable item in it; Wavetable, the third preferred name, is loaded and
\* Simpler is left alone.
C9_Witness ==
    /\ cmd.op = "load_default_instrument"
    /\ Len(browser["instruments"].children) = 2
    /\ browser["instruments"].children[1].name = DefaultNames["instruments"][3]
    /\ ~browser["instruments"].children[1].is_loadable
    /\ FirstLoadable(browser["instruments"].children[1]) # None
    /\ browser["instruments"].children[2].name = DefaultNames["instruments"][1]
    /\ calls = << [op |-> "load_item",
                   item |-> browser["instruments"].children[2]] >>
    /\ ret = ReturnTuple(<<DefaultNames["instruments"][1]>>)

\* C9 witness of the order: a later preferred name is loaded because the
\* earlier one, though found, holds nothing loadable.
C9_WitnessSkipped ==
    /\ cmd.op = "load_default_audio_effect"
    /\ FirstNamed(browser["audio_effects"], AudioEffectPreferences[1]) # None
    /\ Resolved(cmd.op, 1) = None
    /\ Len(Loads) = 1
    /\ Loads[1].item = Resolved(cmd.op, 2)

\* C10 as stated: a load-default command on a category root with at least
\* one child invokes the host load and returns the loaded name.
C10_NonEmptyAlwaysLoads ==
    (/\ cmd.op \in DOMAIN DefaultRoot
     /\ browser[DefaultRoot[cmd.op]].children # <<>>
     /\ ~cmd.host_raises) =>
        /\ Len(Loads) = 1
        /\ ret = ReturnTuple(<<Loads[1].item.name>>)

\* C10 amended: a load-default command invokes the host load (once, on a
\* loadable item) exactly when its category root is loadable or has a
\* loadable descendant, and then returns the loaded name if the host load
\* completes; a category whose items are all not loadable, however many,
\* loads nothing and returns nothing.
C10_LoadsIffSomethingLoadable ==
    cmd.op \in DOMAIN DefaultRoot =>
        LET root == browser[DefaultRoot[cmd.op]]
            any == \E x \in Range(PreorderFrom(root)) : x.is_loadable
            loaded == /\ Len(calls) = 1
                      /\ Len(Loads) = 1
                      /\ Loads[1].item.is_loadable
                      /\ Loads[1].item \in Range(PreorderFrom(root))
                      /\ (~cmd.host_raises =>
                              ret = ReturnTuple(<<Loads[1].item.name>>))
        IN IF any
           THEN loaded
           ELSE (calls = <<>> /\ ret = ReturnVoid)

\* C10 witness: no preferred name is present and the fallback loads an item
\* that is not preferred.
C10_Witness ==
    /\ cmd.op = "load_default_midi_effect"
    /\ \A i \in DOMAIN MidiEffectPreferences :
          FirstNamed(browser["midi_effects"], MidiEffectPreferences[i]) = None
    /\ Len(Loads) = 1
    /\ Loads[1].item.name = DefaultNames["midi_effects"][3]
    /\ ret = ReturnTuple(<<Loads[1].item.name>>)

\* C10 witness of the failing case: a root with children, none loadable.
C10_WitnessNothingLoadable ==
    /\ cmd.op \in DOMAIN DefaultRoot
    /\ Len(browser[DefaultRoot[cmd.op]].children) >= 2
    /\ calls = <<>>
    /\ ret = ReturnVoid


(***************************************************************************)
(* The preview handlers.                                                   *)
(***************************************************************************)
\* browser.preview_item(target); return (target.name,)  -- inside try/except
PreviewItemAndReturn(item, host_raises) ==
    Outcome(IF host_raises THEN ReturnVoid ELSE ReturnTuple(<<item.name>>),
            << [op |-> "preview_item", item |-> item] >>)

\* Mutant of _preview_sample: the item found is resolved as the load
\* handlers resolve it, with nothing previewed when it holds nothing loadable.
PreviewLoadableOnly(b, params, host_raises) ==
    IF Len(params) < 1 THEN Outcome(ReturnVoid, <<>>)
    ELSE LET item == _find_item_by_name(b["samples"], params[1])
             loadable == IF item # None THEN _get_first_loadable_child(item)
                         ELSE None
         IN IF loadable # None THEN PreviewItemAndReturn(loadable, host_raises)
            ELSE Outcome(ReturnVoid, <<>>)

_preview_sample(b, params, host_raises) ==
    IF Len(params) < 1 THEN Outcome(ReturnVoid, <<>>)
    ELSE LET name == params[1]
             item == _find_item_by_name(b["samples"], name)
         IN IF item # None
            THEN LET loadable == _get_first_loadable_child(item)
                     target == IF loadable # None THEN loadable ELSE item
                 IN IF target # None
                    THEN PreviewItemAndReturn(target, host_raises)
                    ELSE Outcome(ReturnVoid, <<>>)
            ELSE Outcome(ReturnVoid, <<>>)

\* Mutant of _stop_preview: the host's stop operation is invoked only while
\* a hotswap target is set.
StopPreviewWhenArmed(b, target, params, host_raises) ==
    IF target = None THEN Outcome(ReturnTuple(<<TRUE>>), <<>>)
    ELSE Outcome(IF host_raises THEN ReturnVoid ELSE ReturnTuple(<<TRUE>>),
                 << [op |-> "stop_preview"] >>)

\* browser.stop_preview(); return (True,)  -- inside try/except. The handler
\* reads neither the catalog b, nor the hotswap target, nor params.
_stop_preview(b, target, params, host_raises) ==
    Outcome(IF host_raises THEN ReturnVoid ELSE ReturnTuple(<<TRUE>>),
            << [op |-> "stop_preview"] >>)

(***************************************************************************)
(* Preview specification: preview_sample, load_sample and stop_preview     *)
(* over every forest of at most MaxLoadNodes items below each category     *)
(* root.                                                                   *)
(***************************************************************************)
PreviewSample ==
    \E params \in LoadParams, host_raises \in BOOLEAN :
        Handled("preview_sample", params, host_raises,
                _preview_sample(browser, params, host_raises))
StopPreview ==
    \E params \in {<<>>}, host_raises \in BOOLEAN :
        Handled("stop_preview", params, host_raises,
                _stop_preview(browser, hotswap_target, params, host_raises))

NextPreview ==
    \/ PreviewSample
    \/ LoadSample
    \/ StopPreview

SpecPreview == InitLoad /\ [][NextPreview]_vars

(***************************************************************************)
(* Properties of the preview handlers.                                     *)
(***************************************************************************)
\* The host previews invoked by the last command.
Previews == SelectSeq(calls, LAMBDA c : c.op = "preview_item")

\* C11 as stated: preview_sample returns nothing exactly when load_sample on
\* the same catalog and name returns nothing, otherwise previews the item
\* load_sample would load, and never invokes the host load.
C11_PreviewResolvesAsLoad ==
    (cmd.op = "preview_sample" /\ ~cmd.host_raises) =>
        LET would == _load_sample(browser, cmd.params, FALSE)
        IN /\ (ret = ReturnVoid) <=> (would.ret = ReturnVoid)
           /\ (would.calls # <<>> =>
                  calls = << [op |-> "preview_item",
                              item |-> would.calls[1].item] >>)
           /\ Loads = <<>>

\* C11 amended: preview_sample previews, exactly once,
\* first_loadable_descendant of the item find_by_name finds and, when that
\* item holds nothing loadable, the item found itself; it returns nothing
\* only when the name is missing or not found; whenever load_sample would
\* load an item, preview_sample previews that same item; it never invokes
\* the host load.
C11_PreviewFallsBackToFound ==
    (cmd.op = "preview_sample" /\ Len(cmd.params) >= 1) =>
        LET found == FirstNamed(browser["samples"], cmd.params[1])
            target == IF FirstLoadable(found) # None THEN FirstLoadable(found)
                      ELSE found
            would == _load_sample(browser, cmd.params, FALSE)
        IN /\ Loads = <<>>
           /\ (would.calls # <<>> => would.calls[1].item = target)
           /\ IF found # None
              THEN /\ calls = << [op |-> "preview_item", item |-> target] >>
                   /\ (~cmd.host_raises => ret = ReturnTuple(<<target.name>>))
              ELSE /\ calls = <<>>
                   /\ ret = ReturnVoid

\* C11 witness: the item found is a folder with a loadable item in it, which
\* is previewed, as load_sample would have loaded it.
C11_Witness ==
    /\ cmd.op = "preview_sample"
    /\ Len(Previews) = 1
    /\ ~EqualIgnoringCase(Previews[1].item.name, cmd.params[1])
    /\ Previews[1].item.is_loadable
    /\ _load_sample(browser, cmd.params, FALSE).calls =
           << [op |-> "load_item", item |-> Previews[1].item] >>
    /\ ret = ReturnTuple(<<Previews[1].item.name>>)

\* C11 witness of the difference: the item found holds nothing loadable; it
\* is previewed itself, where load_sample loads nothing.
C11_WitnessNotLoadable ==
    /\ cmd.op = "preview_sample"
    /\ Len(Previews) = 1
    /\ ~Previews[1].item.is_loadable
    /\ ret = ReturnTuple(<<Previews[1].item.name>>)
    /\ _load_sample(browser, cmd.params, FALSE) = Outcome(ReturnVoid, <<>>)


(***************************************************************************)
(* The hotswap handlers. The song is the host's: a sequence of tracks,     *)
(* each a sequence of devices. A hotswap handler's effect is its outcome    *)
(* and the hotswap target it leaves.                                        *)
(***************************************************************************)
\* The device at place d of track t: an object with a name.
Device(t, d) ==
    [id |-> <<"device", t, d>>,
     name |-> <<"D">> \o Numeral(t) \o Numeral(d)]

\* The song whose track t holds counts[t] devices.
SongOf(counts) ==
    [t \in 1..Len(counts) |-> [d \in 1..counts[t] |-> Device(t, d)]]

\* Python's collection[i]: places 0 .. n-1 from the front, -1 .. -n from the
\* back, IndexError (raised) for every other i.
IndexRaises(collection, i) == i >= Len(collection) \/ i < -Len(collection)
At(collection, i) ==
    collection[IF i >= 0 THEN i + 1 ELSE Len(collection) + i + 1]

Effect(r, c, t) == [ret |-> r, calls |-> c, hotswap_target |-> t]

\* host_raises: setting browser.hotswap_target raises.
_hotswap_start(song, target, params, host_raises) ==
    IF Len(params) < 2 THEN Effect(ReturnVoid, <<>>, target)
    ELSE LET track_index == params[1]
             device_index == params[2]
         IN IF IndexRaises(song, track_index)
            THEN Effect(ReturnVoid, <<>>, target)
            ELSE LET track == At(song, track_index)
                 IN IF IndexRaises(track, device_index)
                    THEN Effect(ReturnVoid, <<>>, target)
                    ELSE LET device == At(track, device_index)
                         IN IF host_raises
                            THEN Effect(ReturnVoid, <<>>, target)
                            ELSE Effect(ReturnTuple(<<device.name>>), <<>>,
                                        device)

\* The categories _hotswap_load searches, in its order.
HotswapCategories == <<"instruments", "audio_effects", "midi_effects", "sounds">>

\* The loop over the categories from the k-th on: the item of the first
\* category in which the name is found, or None.
RECURSIVE HotswapFind(_, _, _)
HotswapFind(b, k, name) ==
    IF k > Len(HotswapCategories) THEN None
    ELSE LET item == _find_item_by_name(b[HotswapCategories[k]], name)
         IN IF item # None THEN item ELSE HotswapFind(b, k + 1, name)

\* Mutant of HotswapFind: a category whose match holds nothing loadable is
\* passed over for the next one.
RECURSIVE HotswapFindLoadable(_, _, _)
HotswapFindLoadable(b, k, name) ==
    IF k > Len(HotswapCategories) THEN None
    ELSE LET item == _find_item_by_name(b[HotswapCategories[k]], name)
         IN IF item # None /\ _get_first_loadable_child(item) # None THEN item
            ELSE HotswapFindLoadable(b, k + 1, name)

\* Mutant of _hotswap_load: no check that a hotswap target is set.
HotswapLoadUnarmed(b, target, params, host_raises) ==
    IF Len(params) < 1 THEN Effect(ReturnVoid, <<>>, target)
    ELSE LET item == HotswapFind(b, 1, params[1])
             loadable == IF item # None THEN _get_first_loadable_child(item)
                         ELSE None
         IN IF loadable # None
            THEN LET out == LoadItemAndReturn(loadable, host_raises)
                 IN Effect(out.ret, out.calls, target)
            ELSE Effect(ReturnVoid, <<>>, target)

\* Mutant of _hotswap_load: a load that completes clears the hotswap target.
HotswapLoadConsuming(b, target, params, host_raises) ==
    LET e == HotswapLoadUnarmed(b, target, params, host_raises)
    IN IF target = None THEN Effect(ReturnVoid, <<>>, target)
       ELSE IF e.ret # ReturnVoid THEN Effect(e.ret, e.calls, None)
       ELSE e

\* Mutant of _hotswap_load: the match is looked for in the first category
\* that holds a loadable one.
HotswapLoadFirstLoadable(b, target, params, host_raises) ==
    IF Len(params) < 1 \/ target = None THEN Effect(ReturnVoid, <<>>, target)
    ELSE LET item == HotswapFindLoadable(b, 1, params[1])
         IN IF item # None
            THEN LET out == LoadItemAndReturn(_get_first_loadable_child(item),
                                              host_raises)
                 IN Effect(out.ret, out.calls, target)
            ELSE Effect(ReturnVoid, <<>>, target)

_hotswap_load(b, target, params, host_raises) ==
    IF Len(params) < 1 THEN Effect(ReturnVoid, <<>>, target)
    ELSE IF target = None THEN Effect(ReturnVoid, <<>>, target)
    ELSE LET name == params[1]
             item == HotswapFind(b, 1, name)
         IN IF item # None
            THEN LET loadable == _get_first_loadable_child(item)
                 IN IF loadable # None
                    THEN LET out == LoadItemAndReturn(loadable, host_raises)
                         IN Effect(out.ret, out.calls, target)
                    ELSE Effect(ReturnVoid, <<>>, target)
            ELSE Effect(ReturnVoid, <<>>, target)

\* A hotswap handler ran on params and left the effect e.
HandledHotswap(c, e) ==
    /\ cmd' = c
    /\ ret' = e.ret
    /\ calls' = e.calls
    /\ hotswap_target' = e.hotswap_target
    /\ UNCHANGED browser

\* hotswap_start on one of songs with one of paramset.
HotswapStartOver(songs, paramset) ==
    \E song \in songs, params \in paramset, host_raises \in BOOLEAN :
        HandledHotswap([op |-> "hotswap_start", params |-> params,
                        host_raises |-> host_raises, song |-> song],
                       _hotswap_start(song, hotswap_target, params, host_raises))

HotswapLoad ==
    \E params \in LoadParams, host_raises \in BOOLEAN :
        HandledHotswap([op |-> "hotswap_load", params |-> params,
                        host_raises |-> host_raises],
                       _hotswap_load(browser, hotswap_target, params, host_raises))


(***************************************************************************)
(* Hotswap-start specification: hotswap_start, again and again, on songs   *)
(* of no track, of one track with a device, and of a track with two        *)
(* devices before a track with none, with every pair of indices from       *)
(* -MaxIndex to MaxIndex and with too few arguments.                        *)
(***************************************************************************)
Songs == {SongOf(<<>>), SongOf(<<1>>), SongOf(<<2, 0>>)}

Indices == (0 - MaxIndex)..MaxIndex

StartParams == {<<>>, <<0>>} \cup { <<t, d>> : t \in Indices, d \in Indices }

InitHotswapStart ==
    /\ browser = UniformBrowser(RootOver(<<>>))
    /\ hotswap_target = None
    /\ cmd = NoCmd
    /\ ret = None
    /\ calls = <<>>

NextHotswapStart == HotswapStartOver(Songs, StartParams)

SpecHotswapStart == InitHotswapStart /\ [][NextHotswapStart]_vars

(***************************************************************************)
(* Properties of hotswap_start.                                            *)
(***************************************************************************)
\* Index i lies within the bounds of the collection: 0 <= i < size.
InBounds(collection, i) == 0 <= i /\ i < Len(collection)

\* Both indices of the last hotswap_start lie within bounds.
StartInBounds ==
    /\ Len(cmd.params) >= 2
    /\ InBounds(cmd.song, cmd.params[1])
    /\ InBounds(cmd.song[cmd.params[1] + 1], cmd.params[2])

\* C14: hotswap_start with an index below 0 or not less than its
\* collection's size returns nothing and leaves the hotswap target as it
\* was; with both indices in bounds (and the host accepting the target) it
\* sets the target to tracks[track_index].devices[device_index] and returns
\* that device's name.
C14_StartChecksBounds ==
    [][cmd'.op = "hotswap_start" /\ Len(cmd'.params) >= 2 =>
         LET t == cmd'.params[1]
             d == cmd'.params[2]
         IN IF InBounds(cmd'.song, t) /\ InBounds(cmd'.song[t + 1], d)
            THEN ~cmd'.host_raises =>
                     /\ hotswap_target' = cmd'.song[t + 1][d + 1]
                     /\ ret' = ReturnTuple(<<cmd'.song[t + 1][d + 1].name>>)
            ELSE /\ ret' = ReturnVoid
                 /\ hotswap_target' = hotswap_target]_vars

\* The indices -1, -1 on a song whose last track ends with a device: the
\* code arms that device and returns its name.
C14_ArmedFromTheBack ==
    /\ cmd.op = "hotswap_start"
    /\ cmd.params = <<-1, -1>>
    /\ ~StartInBounds
    /\ hotswap_target = Device(1, 1)
    /\ ret = ReturnTuple(<<Device(1, 1).name>>)


(***************************************************************************)
(* Hotswap specification: hotswap_start and hotswap_load over every        *)
(* catalog whose instruments, audio_effects, midi_effects and sounds roots *)
(* hold at most MaxHotswapNodes items between them, every other root       *)
(* holding a loadable Kit and a loadable Pad; the song has one track with  *)
(* one device.                                                             *)
(***************************************************************************)
\* How many items each of the four roots holds.
HotswapSizes ==
    { s \in [1..Len(HotswapCategories) -> 0..MaxHotswapNodes] :
          s[1] + s[2] + s[3] + s[4] <= MaxHotswapNodes }

ElsewhereForest ==
    << [name |-> Kit, is_loadable |-> TRUE, children |-> <<>>],
       [name |-> Pad, is_loadable |-> TRUE, children |-> <<>>] >>

\* The browser whose k-th hotswap category holds the forest fs[k].
HotswapBrowser(fs) ==
    [c \in CategorySet |->
        IF \E k \in DOMAIN HotswapCategories : HotswapCategories[k] = c
        THEN LET k == CHOOSE k \in DOMAIN HotswapCategories :
                          HotswapCategories[k] = c
             IN Place(RootOver(fs[k]), <<c>>)
        ELSE Place(RootOver(ElsewhereForest), <<c>>)]

HotswapBrowsers ==
    UNION { { HotswapBrowser(<<f1, f2, f3, f4>>) :
                f1 \in Forests(s[1], Labels), f2 \in Forests(s[2], Labels),
                f3 \in Forests(s[3], Labels), f4 \in Forests(s[4], Labels) } :
            s \in HotswapSizes }

InitHotswap ==
    /\ browser \in HotswapBrowsers
    /\ hotswap_target = None
    /\ cmd = NoCmd
    /\ ret = None
    /\ calls = <<>>

NextHotswap ==
    \/ HotswapStartOver({SongOf(<<1>>)}, {<<0>>, <<0, 0>>, <<1, 0>>})
    \/ HotswapLoad

SpecHotswap == InitHotswap /\ [][NextHotswap]_vars

(***************************************************************************)
(* Properties of the hotswap session.                                      *)
(***************************************************************************)
Idle == hotswap_target = None
Armed == hotswap_target # None

\* The places, in hotswap_load's category order, of the categories in which
\* find_by_name finds the name.
HotswapMatching(name) ==
    { k \in DOMAIN HotswapCategories :
          FirstNamed(browser[HotswapCategories[k]], name) # None }

\* What hotswap_load resolves the name to: first_loadable_descendant of the
\* match of the first matching category, None without a match.
HotswapResolved(name) ==
    IF HotswapMatching(name) = {} THEN None
    ELSE LET first == CHOOSE k \in HotswapMatching(name) :
                          \A j \in HotswapMatching(name) : k <= j
         IN FirstLoadable(FirstNamed(browser[HotswapCategories[first]], name))

\* C12: hotswap_load in state Idle returns nothing and invokes no host
\* operation, whatever the name and the catalog; a hotswap_start that
\* returns a name leaves the session Armed, and hotswap_load in state Armed
\* goes on to resolve the name and loads what it resolves to.
C12_LoadNeedsArmed ==
    [][/\ (cmd'.op = "hotswap_load" /\ Idle) =>
              (ret' = ReturnVoid /\ calls' = <<>>)
       /\ (cmd'.op = "hotswap_start" /\ ret' # ReturnVoid) => Armed'
       /\ (/\ cmd'.op = "hotswap_load"
           /\ Armed
           /\ Len(cmd'.params) >= 1
           /\ HotswapResolved(cmd'.params[1]) # None) =>
              calls' = << [op |-> "load_item",
                           item |-> HotswapResolved(cmd'.params[1])] >>]_vars

\* C12 witness: Idle, a name that instruments holds as a loadable item, and
\* hotswap_load has loaded nothing.
C12_Witness ==
    /\ cmd.op = "hotswap_load"
    /\ Idle
    /\ Len(cmd.params) >= 1
    /\ HotswapResolved(cmd.params[1]) # None
    /\ calls = <<>>
    /\ ret = ReturnVoid

\* C12 witness of the armed session: hotswap_load has loaded an item.
C12_WitnessArmed ==
    /\ cmd.op = "hotswap_load"
    /\ hotswap_target = Device(1, 1)
    /\ Len(Loads) = 1
    /\ ret = ReturnTuple(<<Loads[1].item.name>>)

C15_WitnessOrder ==
    /\ cmd.op = "hotswap_load"
    /\ Armed
    /\ Len(cmd.params) >= 1
    /\ FirstNamed(browser["instruments"], cmd.params[1]) = None
    /\ FirstLoadable(FirstNamed(browser["sounds"], cmd.params[1])) # None
    /\ Len(Loads) = 1
    /\ Loads[1].item.id[1] = "audio_effects"


(***************************************************************************)
(* The navigation handlers.                                                *)
(***************************************************************************)
\* The keys of category_map as strings of characters.
CategoryKeys ==
    [instruments |-> <<"i","n","s","t","r","u","m","e","n","t","s">>,
     drums |-> <<"d","r","u","m","s">>,
     sounds |-> <<"s","o","u","n","d","s">>,
     audio_effects |-> <<"a","u","d","i","o","_","e","f","f","e","c","t","s">>,
     midi_effects |-> <<"m","i","d","i","_","e","f","f","e","c","t","s">>,
     max_for_live |-> <<"m","a","x","_","f","o","r","_","l","i","v","e">>,
     plugins |-> <<"p","l","u","g","i","n","s">>,
     clips |-> <<"c","l","i","p","s">>,
     samples |-> <<"s","a","m","p","l","e","s">>,
     packs |-> <<"p","a","c","k","s">>,
     user_library |-> <<"u","s","e","r","_","l","i","b","r","a","r","y">>,
     current_project |-> <<"c","u","r","r","e","n","t","_","p","r","o","j","e","c","t">>]

\* Mutant of _get_category: the token is looked up as given.
GetCategoryCaseSensitive(b, category) ==
    IF \E c \in CategorySet : CategoryKeys[c] = category
    THEN b[CHOOSE c \in CategorySet : CategoryKeys[c] = category]
    ELSE None

\* category_map.get(category.lower())
_get_category(b, category) ==
    LET key == lower(category)
    IN IF \E c \in CategorySet : CategoryKeys[c] = key
       THEN b[CHOOSE c \in CategorySet : CategoryKeys[c] = key]
       ELSE None

\* tuple(item.name for item in parent.children)
ChildNames(parent) ==
    IF parent.children = <<>> THEN <<>>
    ELSE [i \in 1..Len(parent.children) |-> parent.children[i].name]

\* host_raises: a read of the host's catalog raises inside the try.
_browse(b, params, host_raises) ==
    IF Len(params) < 1 THEN Outcome(ReturnTuple(<<>>), <<>>)
    ELSE IF host_raises THEN Outcome(ReturnTuple(<<>>), <<>>)
    ELSE LET parent == _get_category(b, params[1])
         IN IF parent = None THEN Outcome(ReturnTuple(<<>>), <<>>)
            ELSE Outcome(ReturnTuple(ChildNames(parent)), <<>>)

_browse_path(b, params, host_raises) ==
    IF Len(params) < 2 THEN Outcome(ReturnTuple(<<>>), <<>>)
    ELSE IF host_raises THEN Outcome(ReturnTuple(<<>>), <<>>)
    ELSE LET parent == _get_category(b, params[1])
         IN IF parent = None THEN Outcome(ReturnTuple(<<>>), <<>>)
            ELSE LET item == _find_item_by_name(parent, params[2])
                 IN IF item = None THEN Outcome(ReturnTuple(<<>>), <<>>)
                    ELSE Outcome(ReturnTuple(ChildNames(item)), <<>>)

\* is_device: the host's is_device flag of the item found.
_get_item_info(b, params, is_device, host_raises) ==
    IF Len(params) < 2 THEN Outcome(ReturnTuple(<<>>), <<>>)
    ELSE IF host_raises THEN Outcome(ReturnTuple(<<>>), <<>>)
    ELSE LET parent == _get_category(b, params[1])
         IN IF parent = None THEN Outcome(ReturnTuple(<<>>), <<>>)
            ELSE LET item == _find_item_by_name(parent, params[2])
                     child_count == Len(item.children)
                 IN IF item = None THEN Outcome(ReturnTuple(<<>>), <<>>)
                    ELSE Outcome(ReturnTuple(<<item.name, item.is_loadable,
                                               is_device, child_count > 0,
                                               child_count>>), <<>>)

(***************************************************************************)
(* Navigation specification: category lookup, browse, browse_path and      *)
(* get_item_info over catalogs in which each category root holds a forest  *)
(* of at most MaxBrowseNodes items followed by an item named after the     *)
(* place of the category in category_map.                                  *)
(***************************************************************************)
BrowseLabels ==
    { [name |-> Kit, is_loadable |-> TRUE], [name |-> Pad, is_loadable |-> FALSE] }

\* The item that tells the categories apart: C01, C02, ...
Marker(k) ==
    [name |-> <<"C">> \o Numeral(k), is_loadable |-> FALSE, children |-> <<>>]

BrowseBrowser(f) ==
    [c \in CategorySet |->
        LET k == CHOOSE k \in DOMAIN Categories : Categories[k] = c
        IN Place(RootOver(f \o <<Marker(k)>>), <<c>>)]

\* Tokens that category_map knows, in several cases, and tokens it does not.
UpperKey(c) ==
    [i \in 1..Len(CategoryKeys[c]) |->
        LET at == { j \in DOMAIN LowerCase : LowerCase[j] = CategoryKeys[c][i] }
        IN IF at = {} THEN CategoryKeys[c][i] ELSE UpperCase[CHOOSE j \in at : TRUE]]
KnownTokens ==
    { CategoryKeys[c] : c \in CategorySet } \cup { UpperKey(c) : c \in CategorySet }
    \cup { <<"P","a","c","k","s">>, <<"u","s","e","r","_","L","i","b","r","a","r","y">> }
UnknownTokens ==
    { <<"b","o","g","u","s">>, <<>>, <<"d","r","u","m">>,
      <<"d","r","u","m","s"," ">>, <<"m","i","d","i"," ","e","f","f","e","c","t","s">>,
      <<"u","s","e","r","l","i","b","r","a","r","y">> }
PathTokens ==
    { CategoryKeys["instruments"], UpperKey("drums"), <<"b","o","g","u","s">> }
PathParams ==
    { <<CategoryKeys["instruments"]>> } \cup
    { <<t, n>> : t \in PathTokens, n \in { <<"K","I","T">>, <<"p","a","d">>, <<"c","0","2">> } }

InitBrowse ==
    /\ browser \in { BrowseBrowser(f) : f \in ForestsUpTo(MaxBrowseNodes, BrowseLabels) }
    /\ hotswap_target = None
    /\ cmd = NoCmd
    /\ ret = None
    /\ calls = <<>>

GetCategory ==
    \E category \in KnownTokens \cup UnknownTokens :
        /\ cmd' = [op |-> "get_category", category |-> category]
        /\ ret' = _get_category(browser, category)
        /\ calls' = <<>>
        /\ UNCHANGED <<browser, hotswap_target>>
Browse ==
    \E params \in {<<>>} \cup { <<t>> : t \in KnownTokens \cup UnknownTokens },
       host_raises \in BOOLEAN :
        Handled("browse", params, host_raises,
                _browse(browser, params, host_raises))
BrowsePath ==
    \E params \in PathParams, host_raises \in BOOLEAN :
        Handled("browse_path", params, host_raises,
                _browse_path(browser, params, host_raises))
GetItemInfo ==
    \E params \in PathParams, is_device \in BOOLEAN, host_raises \in BOOLEAN :
        Handled("get_item_info", params, host_raises,
                _get_item_info(browser, params, is_device, host_raises))

NextBrowse ==
    \/ GetCategory
    \/ Browse
    \/ BrowsePath
    \/ GetItemInfo

SpecBrowse == InitBrowse /\ [][NextBrowse]_vars


(***************************************************************************)
(* Properties of the navigation handlers.                                  *)
(***************************************************************************)
\* The categories whose key is the token, compared ignoring case.
Naming(token) == { c \in CategorySet : EqualIgnoringCase(CategoryKeys[c], token) }

\* The root the token names, None for a token that names none.
RootNamed(token) ==
    IF Naming(token) = {} THEN None
    ELSE browser[CHOOSE c \in Naming(token) : TRUE]

\* The category token of the last navigation command, if it had one.
HasToken ==
    \/ cmd.op = "browse" /\ Len(cmd.params) >= 1
    \/ cmd.op \in {"browse_path", "get_item_info"} /\ Len(cmd.params) >= 2

\* C16: category_for takes each of the 12 category tokens, in any case, to
\* the root of that category, a different root for each, and every other
\* token to not_found; browse, browse_path and get_item_info given a token
\* that names no category return an empty sequence and invoke no host
\* operation, and browse given one that does returns the names of the
\* children of that category's root.
C16_CategoryLookup ==
    /\ cmd.op = "get_category" =>
           /\ ret = RootNamed(cmd.category)
           /\ \A c \in CategorySet :
                  EqualIgnoringCase(CategoryKeys[c], cmd.category) =>
                      ret.id = <<c>>
           /\ (cmd.category \in UnknownTokens => ret = None)
    /\ \A c, d \in CategorySet :
           _get_category(browser, CategoryKeys[c]) =
               _get_category(browser, CategoryKeys[d]) => c = d
    /\ (HasToken /\ Naming(cmd.params[1]) = {}) =>
           (ret = ReturnTuple(<<>>) /\ calls = <<>>)
    /\ (cmd.op = "browse" /\ HasToken /\ ~cmd.host_raises) =>
           ret = ReturnTuple(ChildNames(RootNamed(cmd.params[1])))
    /\ cmd.op \in {"browse", "browse_path", "get_item_info"} =>
           (ret.returned = "tuple" /\ calls = <<>>)

\* C16 witness: browse of an unknown token on a catalog whose every root has
\* children has returned the empty sequence.
C16_Witness ==
    /\ cmd.op = "browse"
    /\ Len(cmd.params) = 1
    /\ cmd.params[1] = <<"b","o","g","u","s">>
    /\ ~cmd.host_raises
    /\ \A c \in CategorySet : Len(browser[c].children) >= 2
    /\ ret = ReturnTuple(<<>>)
    /\ calls = <<>>

\* C16 witness of a known token in another case: browse of DRUMS has
\* returned the names below the drums root, which end with its marker.
C16_WitnessUpperCase ==
    /\ cmd.op = "browse"
    /\ Len(cmd.params) = 1
    /\ cmd.params[1] = UpperKey("drums")
    /\ ~cmd.host_raises
    /\ Len(ret.value) = 3
    /\ ret.value[3] = <<"C","0","2">>

\* C16 witness for get_item_info: an unknown token with a name that the
\* drums root holds.
C16_WitnessItemInfo ==
    /\ cmd.op = "get_item_info"
    /\ cmd.params = << <<"b","o","g","u","s">>, <<"c","0","2">> >>
    /\ ~cmd.host_raises
    /\ ret = ReturnTuple(<<>>)


(***************************************************************************)
(* load_instrument.                                                        *)
(***************************************************************************)
\* The loop over the direct children from the i-th on: the first whose
\* lower-cased name contains the lower-cased name asked for, or None.
RECURSIVE FirstChildContaining(_, _, _)
FirstChildContaining(kids, i, name) ==
    IF i > Len(kids) THEN None
    ELSE IF contains(lower(name), lower(kids[i].name)) THEN kids[i]
    ELSE FirstChildContaining(kids, i + 1, name)

\* Mutant of _load_instrument: the exact recursive lookup comes first, the
\* direct children that contain the name second.
LoadInstrumentExactFirst(b, params, host_raises) ==
    IF Len(params) < 1 THEN Outcome(ReturnVoid, <<>>)
    ELSE LET exact == _find_item_by_name(b["instruments"], params[1])
             instruments ==
                 IF exact # None THEN exact
                 ELSE FirstChildContaining(b["instruments"].children, 1, params[1])
             loadable == IF instruments # None
                         THEN _get_first_loadable_child(instruments) ELSE None
         IN IF loadable # None THEN LoadItemAndReturn(loadable, host_raises)
            ELSE Outcome(ReturnVoid, <<>>)

_load_instrument(b, params, host_raises) ==
    IF Len(params) < 1 THEN Outcome(ReturnVoid, <<>>)
    ELSE LET name == params[1]
             direct == FirstChildContaining(b["instruments"].children, 1, name)
             instruments == IF direct # None THEN direct
                            ELSE _find_item_by_name(b["instruments"], name)
         IN IF instruments # None
            THEN LET loadable == _get_first_loadable_child(instruments)
                 IN IF loadable # None
                    THEN LoadItemAndReturn(loadable, host_raises)
                    ELSE Outcome(ReturnVoid, <<>>)
            ELSE Outcome(ReturnVoid, <<>>)

(***************************************************************************)
(* Load-instrument specification: load_instrument over every forest of at  *)
(* most MaxInstrumentNodes items named Kit, Kits or Pad below the          *)
(* instruments root.                                                       *)
(***************************************************************************)
Kits == <<"K","i","t","s">>

InstrumentLabels == [name : {Kit, Kits, Pad}, is_loadable : BOOLEAN]

InstrumentParams == {<<>>, << <<"K","I","T">> >>, << <<"p","a","d">> >>, << <<>> >>}

InitInstrument ==
    /\ browser \in { SingleBrowser("instruments", RootOver(f)) :
                        f \in ForestsUpTo(MaxInstrumentNodes, InstrumentLabels) }
    /\ hotswap_target = None
    /\ cmd = NoCmd
    /\ ret = None
    /\ calls = <<>>

LoadInstrument ==
    \E params \in InstrumentParams, host_raises \in BOOLEAN :
        Handled("load_instrument", params, host_raises,
                _load_instrument(browser, params, host_raises))

NextInstrument == LoadInstrument

SpecInstrument == InitInstrument /\ [][NextInstrument]_vars

(***************************************************************************)
(* Properties of load_instrument.                                          *)
(***************************************************************************)
\* The direct children of the instruments root whose name contains the name
\* asked for, ignoring case, in child order.
ChildrenContaining(name) ==
    LET Test(x) == ContainsIgnoringCase(name, x.name)
    IN SelectSeq(browser["instruments"].children, Test)

\* C19: load_instrument starts from the first direct child of the
\* instruments root whose name contains the name asked for, ignoring case,
\* and from find_by_name(instruments, name) only when no direct child
\* contains it; it loads first_loadable_descendant of that item, once, and
\* returns its name (the host load completing), and loads nothing when
\* there is no such item or it holds nothing loadable.
C19_SubstringOfDirectChildFirst ==
    (cmd.op = "load_instrument" /\ Len(cmd.params) >= 1) =>
        LET name == cmd.params[1]
            start == IF ChildrenContaining(name) # <<>>
                     THEN ChildrenContaining(name)[1]
                     ELSE FirstNamed(browser["instruments"], name)
            target == FirstLoadable(start)
        IN IF target # None
           THEN /\ calls = << [op |-> "load_item", item |-> target] >>
                /\ (~cmd.host_raises => ret = ReturnTuple(<<target.name>>))
           ELSE /\ calls = <<>>
                /\ ret = ReturnVoid

\* C19 witness: the first child, Kits, contains the name and holds nothing
\* loadable; the second child is named exactly and is loadable; nothing is
\* loaded.
C19_Witness ==
    /\ cmd.op = "load_instrument"
    /\ cmd.params = << <<"K","I","T">> >>
    /\ Len(browser["instruments"].children) = 2
    /\ browser["instruments"].children[1].name = Kits
    /\ browser["instruments"].children[2].name = Kit
    /\ browser["instruments"].children[2].is_loadable
    /\ calls = <<>>
    /\ ret = ReturnVoid

\* C19 witness of the fallback: no direct child contains the name, the item
\* named so lies deeper and is loaded.
C19_WitnessFallback ==
    /\ cmd.op = "load_instrument"
    /\ Len(cmd.params) >= 1
    /\ ChildrenContaining(cmd.params[1]) = <<>>
    /\ Len(Loads) = 1
    /\ Depth(Loads[1].item) = 2
    /\ ret = ReturnTuple(<<Loads[1].item.name>>)


(***************************************************************************)
(* The remaining handlers: load_drum_kit, load_user_preset and the list    *)
(* handlers.                                                               *)
(***************************************************************************)
\* Mutant of _load_drum_kit: a named kit resolves as the other load-by-name
\* commands do, descending to the first loadable item of the node found.
LoadDrumKitDescending(b, params, host_raises) ==
    IF Len(params) > 0
    THEN LoadByName(b["drums"], params, host_raises)
    ELSE LET item == _get_first_loadable_child(b["drums"])
         IN IF item # None /\ item.is_loadable
            THEN LoadItemAndReturn(item, host_raises)
            ELSE Outcome(ReturnVoid, <<>>)

\* Mutant of _load_drum_kit: the item found is loaded whether loadable or not.
LoadDrumKitUnchecked(b, params, host_raises) ==
    LET item == IF Len(params) > 0 THEN _find_item_by_name(b["drums"], params[1])
                ELSE _get_first_loadable_child(b["drums"])
    IN IF item # None THEN LoadItemAndReturn(item, host_raises)
       ELSE Outcome(ReturnVoid, <<>>)

_load_drum_kit(b, params, host_raises) ==
    LET drums == b["drums"]
        item == IF Len(params) > 0 THEN _find_item_by_name(drums, params[1])
                ELSE _get_first_loadable_child(drums)
    IN IF item # None /\ item.is_loadable
       THEN LoadItemAndReturn(item, host_raises)
       ELSE Outcome(ReturnVoid, <<>>)

_load_user_preset(b, params, host_raises) ==
    IF Len(params) < 1 THEN Outcome(ReturnVoid, <<>>)
    ELSE LET path == params[1]
             item == _find_item_by_name(b["user_library"], path)
         IN IF item # None
            THEN LET loadable == _get_first_loadable_child(item)
                 IN IF loadable # None
                    THEN LoadItemAndReturn(loadable, host_raises)
                    ELSE IF item.is_loadable
                    THEN LoadItemAndReturn(item, host_raises)
                    ELSE Outcome(ReturnVoid, <<>>)
            ELSE Outcome(ReturnVoid, <<>>)

\* The body shared by _list_audio_effects, _list_midi_effects, _list_sounds,
\* _list_plugins and _list_max_devices; host_raises: a read of the catalog
\* raises.
ListChildren(root, host_raises) ==
    IF host_raises THEN Outcome(ReturnTuple(<<>>), <<>>)
    ELSE Outcome(ReturnTuple(ChildNames(root)), <<>>)

_list_audio_effects(b, params, host_raises) ==
    ListChildren(b["audio_effects"], host_raises)
_list_midi_effects(b, params, host_raises) ==
    ListChildren(b["midi_effects"], host_raises)
_list_sounds(b, params, host_raises) ==
    ListChildren(b["sounds"], host_raises)
_list_plugins(b, params, host_raises) ==
    ListChildren(b["plugins"], host_raises)
_list_max_devices(b, params, host_raises) ==
    ListChildren(b["max_for_live"], host_raises)

\* The body shared by _list_samples, _list_clips and _list_user_presets: an
\* optional category, which the empty string does not count as.
ListIn(root, params, host_raises) ==
    IF host_raises THEN Outcome(ReturnTuple(<<>>), <<>>)
    ELSE LET category == IF Len(params) > 0 THEN params[1] ELSE <<>>
         IN IF category # <<>>
            THEN LET parent == _find_item_by_name(root, category)
                 IN IF parent = None THEN Outcome(ReturnTuple(<<>>), <<>>)
                    ELSE Outcome(ReturnTuple(ChildNames(parent)), <<>>)
            ELSE Outcome(ReturnTuple(ChildNames(root)), <<>>)

_list_samples(b, params, host_raises) == ListIn(b["samples"], params, host_raises)
_list_clips(b, params, host_raises) == ListIn(b["clips"], params, host_raises)
_list_user_presets(b, params, host_raises) ==
    ListIn(b["user_library"], params, host_raises)

(***************************************************************************)
(* init_api: the handler of each command. A command meets one of three     *)
(* hosts: one that raises nothing, one whose first read inside the         *)
(* handler's try raises, and one whose operation (load_item, preview_item, *)
(* stop_preview, the setting of hotswap_target) raises.                    *)
(***************************************************************************)
Faults == {"none", "read", "operation"}

\* The handlers whose except clause returns ().
SequenceOps ==
    {"list_audio_effects", "list_midi_effects", "list_sounds", "list_samples",
     "list_clips", "list_plugins", "list_max_devices", "list_user_presets",
     "browse", "browse_path", "search", "get_item_info"}

\* Mutant of ExceptValue: every except clause falls out without a return.
ExceptFallsOut(op) == ReturnVoid

\* What the handler of op returns from its except clause.
ExceptValue(op) == IF op \in SequenceOps THEN ReturnTuple(<<>>) ELSE ReturnVoid

\* The effect of a handler that leaves the hotswap target alone.
Keep(out, target) == Effect(out.ret, out.calls, target)

Dispatch(op, b, target, song, params, is_device, fault) ==
    LET host_raises == (fault = "operation")
    IN IF fault = "read" THEN Effect(ExceptValue(op), <<>>, target)
       ELSE CASE op = "load_instrument" ->
                    Keep(_load_instrument(b, params, host_raises), target)
              [] op = "load_drum_kit" ->
                    Keep(_load_drum_kit(b, params, host_raises), target)
              [] op = "load_default_instrument" ->
                    Keep(_load_default_instrument(b, params, host_raises), target)
              [] op = "load_audio_effect" ->
                    Keep(_load_audio_effect(b, params, host_raises), target)
              [] op = "load_midi_effect" ->
                    Keep(_load_midi_effect(b, params, host_raises), target)
              [] op = "load_default_audio_effect" ->
                    Keep(_load_default_audio_effect(b, params, host_raises), target)
              [] op = "load_default_midi_effect" ->
                    Keep(_load_default_midi_effect(b, params, host_raises), target)
              [] op = "list_audio_effects" ->
                    Keep(_list_audio_effects(b, params, FALSE), target)
              [] op = "list_midi_effects" ->
                    Keep(_list_midi_effects(b, params, FALSE), target)
              [] op = "load_sound" ->
                    Keep(_load_sound(b, params, host_raises), target)
              [] op = "list_sounds" ->
                    Keep(_list_sounds(b, params, FALSE), target)
              [] op = "load_sample" ->
                    Keep(_load_sample(b, params, host_raises), target)
              [] op = "load_clip" ->
                    Keep(_load_clip(b, params, host_raises), target)
              [] op = "list_samples" ->
                    Keep(_list_samples(b, params, FALSE), target)
              [] op = "list_clips" ->
                    Keep(_list_clips(b, params, FALSE), target)
              [] op = "load_plugin" ->
                    Keep(_load_plugin(b, params, host_raises), target)
              [] op = "load_max_device" ->
                    Keep(_load_max_device(b, params, host_raises), target)
              [] op = "list_plugins" ->
                    Keep(_list_plugins(b, params, FALSE), target)
              [] op = "list_max_devices" ->
                    Keep(_list_max_devices(b, params, FALSE), target)
              [] op = "browse" ->
                    Keep(_browse(b, params, FALSE), target)
              [] op = "browse_path" ->
                    Keep(_browse_path(b, params, FALSE), target)
              [] op = "search" ->
                    Keep(Outcome(_search(b, params), <<>>), target)
              [] op = "get_item_info" ->
                    Keep(_get_item_info(b, params, is_device, FALSE), target)
              [] op = "list_user_presets" ->
                    Keep(_list_user_presets(b, params, FALSE), target)
              [] op = "load_user_preset" ->
                    Keep(_load_user_preset(b, params, host_raises), target)
              [] op = "hotswap_start" ->
                    _hotswap_start(song, target, params, host_raises)
              [] op = "hotswap_load" ->
                    _hotswap_load(b, target, params, host_raises)
              [] op = "preview_sample" ->
                    Keep(_preview_sample(b, params, host_raises), target)
              [] op = "stop_preview" ->
                    Keep(_stop_preview(b, target, params, host_raises), target)

(***************************************************************************)
(* Specifications of command sequences. A command is any handler on any    *)
(* of its parameter tuples against any of the hosts; the song has one      *)
(* track with two devices.                                                 *)
(***************************************************************************)
AllSong == SongOf(<<2>>)

AllLabels == [name : {Kit}, is_loadable : BOOLEAN]

\* The handlers that can invoke a host operation.
LoaderOps ==
    {"load_instrument", "load_drum_kit", "load_default_instrument",
     "load_audio_effect", "load_midi_effect", "load_default_audio_effect",
     "load_default_midi_effect", "load_sound", "load_sample", "load_clip",
     "load_plugin", "load_max_device", "load_user_preset", "hotswap_start",
     "hotswap_load", "preview_sample", "stop_preview"}

AllOps == LoaderOps \cup SequenceOps

\* The parameter tuples tried on the handler of op.
ParamsOf(op) ==
    CASE op \in {"load_default_instrument", "load_default_audio_effect",
                 "load_default_midi_effect", "list_audio_effects",
                 "list_midi_effects", "list_sounds", "list_plugins",
                 "list_max_devices", "stop_preview"} -> {<<>>}
      [] op = "hotswap_start" -> {<<0>>, <<0, 0>>, <<0, 1>>, <<1, 0>>}
      [] op = "browse" ->
             {<<>>, <<CategoryKeys["drums"]>>, << <<"b","o","g","u","s">> >>}
      [] op \in {"browse_path", "get_item_info"} ->
             {<<CategoryKeys["drums"]>>,
              <<CategoryKeys["drums"], <<"K","I","T">> >>,
              << <<"b","o","g","u","s">>, <<"K","I","T">> >>}
      [] OTHER -> {<<>>, << <<"K","I","T">> >>, << <<"p","a","d">> >>}

\* The handler of op ran on params against a host with the fault.
Command(op, faults) ==
    \E params \in ParamsOf(op), fault \in faults,
       is_device \in IF op = "get_item_info" THEN BOOLEAN ELSE {FALSE} :
        HandledHotswap([op |-> op, params |-> params, fault |-> fault,
                        host_raises |-> (fault = "operation"), song |-> AllSong],
                       Dispatch(op, browser, hotswap_target, AllSong, params,
                                is_device, fault))

InitAll ==
    /\ browser \in { UniformBrowser(RootOver(f)) :
                        f \in ForestsUpTo(MaxAllNodes, AllLabels) }
    /\ hotswap_target = None
    /\ cmd = NoCmd
    /\ ret = None
    /\ calls = <<>>

NextAll == \E op \in AllOps : Command(op, Faults)

SpecAll == InitAll /\ [][NextAll]_vars

InitLoaders ==
    /\ browser \in { UniformBrowser(RootOver(f)) :
                        f \in ForestsUpTo(MaxLoaderNodes, AllLabels) }
    /\ hotswap_target = None
    /\ cmd = NoCmd
    /\ ret = None
    /\ calls = <<>>

NextLoaders == \E op \in LoaderOps : Command(op, {"none", "operation"})

SpecLoaders == InitLoaders /\ [][NextLoaders]_vars


(***************************************************************************)
(* Properties of command sequences.                                        *)
(***************************************************************************)
\* C13: the hotswap target is nothing (Idle) or a device of the song
\* (Armed); no command takes an Armed session back to Idle; hotswap_load,
\* whether it loads or not, leaves the target as it was; and the target
\* changes only in a hotswap_start that returns the name of the device that
\* is the new target.
C13_ArmedForGood ==
    [][/\ (Armed => Armed')
       /\ (Armed' => hotswap_target' \in Range(AllSong[1]))
       /\ (cmd'.op = "hotswap_load" => hotswap_target' = hotswap_target)
       /\ (hotswap_target' # hotswap_target =>
              /\ cmd'.op = "hotswap_start"
              /\ ret' = ReturnTuple(<<hotswap_target'.name>>))]_vars

\* C13 witness: an Armed session in which hotswap_load has loaded an item.
C13_Witness ==
    /\ Armed
    /\ cmd.op = "hotswap_load"
    /\ Len(Loads) = 1
    /\ ret = ReturnTuple(<<Loads[1].item.name>>)

\* C13 witness of a later hotswap_start that failed and left the second
\* device armed.
C13_WitnessFailedStart ==
    /\ hotswap_target = Device(1, 2)
    /\ cmd.op = "hotswap_start"
    /\ cmd.params = <<1, 0>>
    /\ ret = ReturnVoid

\* The handlers the spec names list, browse and search handlers, and those
\* it names load, preview and hotswap handlers.
ListBrowseSearch ==
    {"list_audio_effects", "list_midi_effects", "list_sounds", "list_samples",
     "list_clips", "list_plugins", "list_max_devices", "list_user_presets",
     "browse", "browse_path", "search"}
LoadPreviewHotswap ==
    {"load_instrument", "load_drum_kit", "load_default_instrument",
     "load_audio_effect", "load_midi_effect", "load_default_audio_effect",
     "load_default_midi_effect", "load_sound", "load_sample", "load_clip",
     "load_plugin", "load_max_device", "load_user_preset", "hotswap_start",
     "hotswap_load", "preview_sample", "stop_preview"}

\* The number of arguments each command requires.
RequiredArguments(op) ==
    CASE op \in {"browse_path", "get_item_info", "hotswap_start"} -> 2
      [] op \in {"load_instrument", "load_audio_effect", "load_midi_effect",
                 "load_sound", "load_sample", "load_clip", "load_plugin",
                 "load_max_device", "load_user_preset", "hotswap_load",
                 "preview_sample", "browse", "search"} -> 1
      [] OTHER -> 0

\* The last command met a failure: a required argument was missing, a read
\* of the host raised, or the host operation of a handler that has one did.
Failed ==
    /\ cmd.op \in AllOps
    /\ \/ Len(cmd.params) < RequiredArguments(cmd.op)
       \/ cmd.fault = "read"
       \/ cmd.fault = "operation" /\ cmd.op \in LoadPreviewHotswap

\* C17: every command ends with a return, a tuple or nothing; when a
\* required argument is missing or the host raises, a list, browse or search
\* handler (and get_item_info) returns the empty tuple, never nothing, and a
\* load, preview or hotswap handler returns nothing.
C17_NoFailureCrossesTheBoundary ==
    cmd.op \in AllOps =>
        /\ ret.returned \in {"tuple", "void"}
        /\ (cmd.op \in ListBrowseSearch \cup {"get_item_info"} =>
               ret.returned = "tuple")
        /\ (Failed /\ cmd.op \in ListBrowseSearch \cup {"get_item_info"} =>
               ret = ReturnTuple(<<>>))
        /\ (Failed /\ cmd.op \in LoadPreviewHotswap => ret = ReturnVoid)

\* C17 witness: list_samples on a samples root with a child, against a host
\* whose read raises, has returned the empty tuple.
C17_Witness ==
    /\ cmd.op = "list_samples"
    /\ cmd.fault = "read"
    /\ browser["samples"].children # <<>>
    /\ ret = ReturnTuple(<<>>)

\* C17 witness for a load handler: the name resolves to a loadable item, the
\* host load is invoked and raises, and the handler returns nothing.
C17_WitnessLoadRaises ==
    /\ cmd.op = "load_sound"
    /\ cmd.fault = "operation"
    /\ Len(Loads) = 1
    /\ ret = ReturnVoid

\* C18 as stated: every stop_preview invokes the host's stop operation and
\* returns the success value.
C18_StopAlwaysSucceeds ==
    cmd.op = "stop_preview" =>
        /\ calls = << [op |-> "stop_preview"] >>
        /\ ret = ReturnTuple(<<TRUE>>)

\* C18 amended: stop_preview invokes the host's stop operation whatever its
\* arguments, the catalog and the hotswap session are, and returns the
\* success value when the host raises nothing; when the stop operation
\* raises it returns nothing, and when the read of the browser raises it
\* returns nothing without having invoked the stop operation.
C18_StopSucceedsUnlessHostRaises ==
    cmd.op = "stop_preview" =>
        /\ (cmd.fault = "none" =>
               (calls = << [op |-> "stop_preview"] >> /\ ret = ReturnTuple(<<TRUE>>)))
        /\ (cmd.fault = "operation" =>
               (calls = << [op |-> "stop_preview"] >> /\ ret = ReturnVoid))
        /\ (cmd.fault = "read" => (calls = <<>> /\ ret = ReturnVoid))

\* C18 witness: a stop_preview that succeeded in an Idle session over a
\* catalog with items.
C18_Witness ==
    /\ cmd.op = "stop_preview"
    /\ cmd.fault = "none"
    /\ Idle
    /\ browser["samples"].children # <<>>
    /\ calls = << [op |-> "stop_preview"] >>
    /\ ret = ReturnTuple(<<TRUE>>)

\* C18 witness of the failing case: the stop operation raised.
C18_WitnessStopRaises ==
    /\ cmd.op = "stop_preview"
    /\ cmd.fault = "operation"
    /\ Armed
    /\ ret = ReturnVoid

\* The commands that load: every handler that invokes the host load.
LoadCommands == LoaderOps \ {"hotswap_start", "preview_sample", "stop_preview"}

\* C20: in every state of every command sequence, the host load has been
\* invoked by the last command at most once, and only on an item that is
\* loadable; a load command returns a name exactly when it has invoked the
\* host load and the load completed, and the name is that of the item
\* loaded; no other command invokes the host load.
C20_LoadsOnlyLoadable ==
    /\ Len(calls) <= 1
    /\ \A i \in DOMAIN Loads : Loads[i].item.is_loadable
    /\ (Loads # <<>> => cmd.op \in LoadCommands)
    /\ (cmd.op \in LoadCommands =>
           IF Loads # <<>> /\ cmd.fault = "none"
           THEN ret = ReturnTuple(<<Loads[1].item.name>>)
           ELSE ret = ReturnVoid)

\* C20 witness: load_drum_kit without a name has passed over a first child
\* that is not loadable and loaded the second, which is.
C20_Witness ==
    /\ cmd.op = "load_drum_kit"
    /\ cmd.params = <<>>
    /\ Len(browser["drums"].children) = 2
    /\ ~browser["drums"].children[1].is_loadable
    /\ calls = << [op |-> "load_item", item |-> browser["drums"].children[2]] >>
    /\ ret = ReturnTuple(<<browser["drums"].children[2].name>>)

\* C20 witness of the contrast: preview_sample has invoked the host preview
\* on an item that is not loadable.
C20_WitnessPreview ==
    /\ cmd.op = "preview_sample"
    /\ Len(Previews) = 1
    /\ ~Previews[1].item.is_loadable
    /\ Loads = <<>>

\* C20 witness for load_user_preset: the loadable item in the folder named
\* by the path has been loaded.
C20_WitnessUserPreset ==
    /\ cmd.op = "load_user_preset"
    /\ Len(Loads) = 1
    /\ Depth(Loads[1].item) = 2
    /\ ret = ReturnTuple(<<Loads[1].item.name>>)


\* C21: load_drum_kit with a kit name invokes the host load exactly when
\* find_by_name(drums, name) returns a node that is itself loadable, and then
\* on that node, returning its name; a node found that is not loadable loads
\* nothing and returns void, whatever loadable items it holds below it. With
\* no argument it loads first_loadable_descendant(drums), and nothing when
\* there is none.
C21_DrumKitLoadsFoundNodeOnly ==
    cmd.op = "load_drum_kit" =>
        LET drums == browser["drums"]
            node == IF Len(cmd.params) > 0
                    THEN _find_item_by_name(drums, cmd.params[1])
                    ELSE _get_first_loadable_child(drums)
        IN IF node # None /\ node.is_loadable
           THEN (/\ calls = << [op |-> "load_item", item |-> node] >>
                 /\ ret = IF cmd.host_raises THEN ReturnVoid
                          ELSE ReturnTuple(<<node.name>>))
           ELSE (calls = <<>> /\ ret = ReturnVoid)

\* C21 witness: the kit named is a folder that is not loadable and holds a
\* loadable item; nothing was loaded and the command returned void.
C21_Witness ==
    /\ cmd.op = "load_drum_kit"
    /\ Len(cmd.params) > 0
    /\ ~cmd.host_raises
    /\ LET node == _find_item_by_name(browser["drums"], cmd.params[1])
       IN /\ node # None
          /\ ~node.is_loadable
          /\ _get_first_loadable_child(node) # None
    /\ calls = <<>>
    /\ ret = ReturnVoid

\* C21 witness of the contrast: on a catalog whose sounds root holds such a
\* folder, load_sound has descended to the loadable item inside it.
C21_WitnessLoadSoundDescends ==
    /\ cmd.op = "load_sound"
    /\ Len(cmd.params) > 0
    /\ LET node == _find_item_by_name(browser["sounds"], cmd.params[1])
       IN /\ node # None
          /\ ~node.is_loadable
          /\ calls = << [op |-> "load_item",
                         item |-> _get_first_loadable_child(node)] >>
    /\ ret = ReturnTuple(<<Loads[1].item.name>>)

\* C21 witness with a name: the node found is loadable and was loaded,
\* although it holds a loadable item below it.
C21_WitnessNamedLoaded ==
    /\ cmd.op = "load_drum_kit"
    /\ Len(cmd.params) > 0
    /\ LET node == _find_item_by_name(browser["drums"], cmd.params[1])
       IN /\ node # None
          /\ \E i \in DOMAIN node.children : node.children[i].is_loadable
          /\ calls = << [op |-> "load_item", item |-> node] >>
          /\ ret = ReturnTuple(<<node.name>>)

\* C21 witness without an argument: the first loadable item of drums lies
\* inside a folder that is not loadable, and was loaded.
C21_WitnessNoArgument ==
    /\ cmd.op = "load_drum_kit"
    /\ cmd.params = <<>>
    /\ Len(Loads) = 1
    /\ Depth(Loads[1].item) = 2
    /\ Loads[1].item = _get_first_loadable_child(browser["drums"])
    /\ ret = ReturnTuple(<<Loads[1].item.name>>)

====
